---- MODULE Spec2Model ----
(***************************************************************************)
(* flux-provider-pushover: the HTTP bridge that receives FluxCD alerts on  *)
(* /webhook, authenticates them, formats them and forwards them to the     *)
(* Pushover API.                                                           *)
(*                                                                         *)
(* Go strings are modelled as sequences of one-character strings, so that  *)
(* concatenation, comparison, case mapping and path cleaning are computed  *)
(* and not assumed.                                                        *)
(***************************************************************************)
EXTENDS Integers, Sequences, FiniteSets, TLC

VARIABLES cfg, conn, app, ld, cli, tf

vars == <<cfg, conn, app, ld, cli, tf>>

(***************************************************************************)
(* Bounds                                                                  *)
(***************************************************************************)
\* number of connections the server handles at the same time
NumConns == 2

Conns == 1..NumConns

\* requests the server has in flight at a time
MaxInflight == 2

\* validators handed to WithValidation
MaxValidators == 2

(***************************************************************************)
(* Text helpers (package strings / fmt)                                    *)
(***************************************************************************)
Min(a, b) == IF a <= b THEN a ELSE b

\* s[:n] limited to the length of s
Take(s, n) == SubSeq(s, 1, Min(n, Len(s)))

\* strings.Contains(s, sub)
Contains(s, sub) ==
    \E i \in 0..(Len(s) - Len(sub)) : SubSeq(s, i + 1, i + Len(sub)) = sub

\* strings.HasPrefix(s, p)
HasPrefix(s, p) == Len(p) <= Len(s) /\ SubSeq(s, 1, Len(p)) = p

LowerLetters == <<"a","b","c","d","e","f","g","h","i","j","k","l","m","n","o","p","q","r","s","t","u","v","w","x","y","z">>
UpperLetters == <<"A","B","C","D","E","F","G","H","I","J","K","L","M","N","O","P","Q","R","S","T","U","V","W","X","Y","Z">>
Digits == <<"0","1","2","3","4","5","6","7","8","9">>

UpperChar(c) ==
    IF \E i \in 1..26 : LowerLetters[i] = c
    THEN UpperLetters[CHOOSE i \in 1..26 : LowerLetters[i] = c]
    ELSE c

LowerChar(c) ==
    IF \E i \in 1..26 : UpperLetters[i] = c
    THEN LowerLetters[CHOOSE i \in 1..26 : UpperLetters[i] = c]
    ELSE c

\* strings.ToUpper
ToUpper(s) == [i \in 1..Len(s) |-> UpperChar(s[i])]

\* strings.ToLower
ToLower(s) == [i \in 1..Len(s) |-> LowerChar(s[i])]

\* the %d verb of fmt for a non-negative integer
RECURSIVE Itoa(_)
Itoa(n) == IF n < 10 THEN <<Digits[n + 1]>> ELSE Itoa(n \div 10) \o <<Digits[(n % 10) + 1]>>

(***************************************************************************)
(* internal/types: constants and pre-defined responses                     *)
(***************************************************************************)
DefaultSeverity == <<"I","N","F","O">>
DefaultValue == <<"U","n","k","n","o","w","n">>
NoMessage == <<"N","o"," ","M","e","s","s","a","g","e">>
AppTitle == <<"F","l","u","x","C","D">>
ContentTypeJSON == "application/json"
ContentTypeForm == "application/x-www-form-urlencoded"
BearerPrefix == <<"B","e","a","r","e","r"," ">>
ShutdownTimeout == 30
MaxBodySize == 1048576

ResponseOK == <<"{","\"","s","t","a","t","u","s","\"",":"," ","\"","o","k","\"","}">>
ResponseUnauthorized == <<"{","\"","e","r","r","o","r","\"",":"," ","\"","U","n","a","u","t","h","o","r","i","z","e","d","\"","}">>
ResponseInvalidJSON == <<"{","\"","e","r","r","o","r","\"",":"," ","\"","I","n","v","a","l","i","d"," ","J","S","O","N","\"","}">>
ResponseMethodNotAllowed == <<"{","\"","e","r","r","o","r","\"",":"," ","\"","M","e","t","h","o","d"," ","n","o","t"," ","a","l","l","o","w","e","d","\"","}">>
ResponseRootError == <<"R","e","q","u","e","s","t","s"," ","n","e","e","d"," ","t","o"," ","b","e"," ","m","a","d","e"," ","t","o"," ","/","w","e","b","h","o","o","k">>
ResponseHealthy == <<"h","e","a","l","t","h","y">>

\* the API token value that switches the webhook handler to test mode
SentinelToken == <<"t","e","s","t","_","a","p","i","_","t","o","k","e","n">>

\* the zero value of types.FluxAlert
ZeroAlert ==
    [InvolvedObject |-> [Kind |-> << >>, Namespace |-> << >>, Name |-> << >>,
                         UID |-> << >>, APIVersion |-> << >>, ResourceVersion |-> << >>],
     Severity |-> << >>, Timestamp |-> << >>, Message |-> << >>, Reason |-> << >>,
     Metadata |-> [CommitStatus |-> << >>, Revision |-> << >>, Summary |-> << >>],
     ReportingController |-> << >>, ReportingInstance |-> << >>]

(***************************************************************************)
(* error values: nil, or an error with its Error() text                    *)
(***************************************************************************)
NilError == [nil |-> TRUE, text |-> << >>]

Err(t) == [nil |-> FALSE, text |-> t]

(***************************************************************************)
(* internal/config                                                         *)
(***************************************************************************)
\* the environments the process is started in; both pass ValidateConfig
Environments ==
    { [PUSHOVER_USER_KEY |-> <<"u","1">>, PUSHOVER_API_TOKEN |-> <<"T">>, PORT |-> << >>, PUSHOVER_URL |-> << >>],
      [PUSHOVER_USER_KEY |-> <<"u","1">>, PUSHOVER_API_TOKEN |-> SentinelToken, PORT |-> <<"9","0","0","0">>, PUSHOVER_URL |-> << >>] }

NewConfig ==
    [PushoverUserKey |-> << >>, PushoverAPIToken |-> << >>, BearerToken |-> << >>,
     Port |-> <<":","8","0","8","0">>, PushoverURL |-> <<"h","t","t","p","s",":","/","/","a","p","i",".","p","u","s","h","o","v","e","r",".","n","e","t","/","1","/","m","e","s","s","a","g","e","s",".","j","s","o","n">>]

LoadFromEnv_NoPrefix(env) ==
    LET c1 == [NewConfig EXCEPT !.PushoverUserKey = env.PUSHOVER_USER_KEY,
                                !.PushoverAPIToken = env.PUSHOVER_API_TOKEN]
        c2 == IF env.PORT # << >> THEN [c1 EXCEPT !.Port = <<":">> \o env.PORT] ELSE c1
        c3 == IF env.PUSHOVER_URL # << >> THEN [c2 EXCEPT !.PushoverURL = env.PUSHOVER_URL] ELSE c2
    IN  [c3 EXCEPT !.BearerToken = c3.PushoverAPIToken]

LoadFromEnv(env) ==
    LET c1 == [NewConfig EXCEPT !.PushoverUserKey = env.PUSHOVER_USER_KEY,
                                !.PushoverAPIToken = env.PUSHOVER_API_TOKEN]
        c2 == IF env.PORT # << >> THEN [c1 EXCEPT !.Port = <<":">> \o env.PORT] ELSE c1
        c3 == IF env.PUSHOVER_URL # << >> THEN [c2 EXCEPT !.PushoverURL = env.PUSHOVER_URL] ELSE c2
    IN  IF c3.PushoverAPIToken # << >>
        THEN [c3 EXCEPT !.BearerToken = BearerPrefix \o c3.PushoverAPIToken]
        ELSE c3

\* environments as TestLoadFromEnv and TestRunApp set them up, with and without
\* the required values
ConfigEnvironments ==
    Environments \cup
    { [PUSHOVER_USER_KEY |-> u, PUSHOVER_API_TOKEN |-> t, PORT |-> p, PUSHOVER_URL |-> << >>] :
        u \in {<< >>, <<"u","1">>}, t \in {<< >>, <<"T">>}, p \in {<< >>, <<"9","0","9","0">>} }

\* A *Config is << >> (nil) or <<c>>.  A ConfigLoader is described by what it
\* returns: LoadFromEnv(getEnv) for an environment, or a fixed pair.
EnvLoader(env) == [kind |-> "env", env |-> env, cfg |-> << >>, err |-> NilError]
FixedLoader(cfgp, err) == [kind |-> "fixed", env |-> << >>, cfg |-> cfgp, err |-> err]

CallLoader(loader) ==
    IF loader.kind = "env"
    THEN [cfg |-> <<LoadFromEnv(loader.env)>>, err |-> NilError]
    ELSE [cfg |-> loader.cfg, err |-> loader.err]

ValidateConfig_TokenFirst(cfgp) ==
    IF cfgp = << >> THEN Err(<<"c","o","n","f","i","g"," ","i","s"," ","n","i","l">>)
    ELSE IF cfgp[1].PushoverAPIToken = << >> THEN Err(<<"P","U","S","H","O","V","E","R","_","A","P","I","_","T","O","K","E","N"," ","i","s"," ","r","e","q","u","i","r","e","d">>)
    ELSE IF cfgp[1].PushoverUserKey = << >> THEN Err(<<"P","U","S","H","O","V","E","R","_","U","S","E","R","_","K","E","Y"," ","i","s"," ","r","e","q","u","i","r","e","d">>)
    ELSE NilError

ValidateConfig(cfgp) ==
    IF cfgp = << >> THEN Err(<<"c","o","n","f","i","g"," ","i","s"," ","n","i","l">>)
    ELSE IF cfgp[1].PushoverUserKey = << >> THEN Err(<<"P","U","S","H","O","V","E","R","_","U","S","E","R","_","K","E","Y"," ","i","s"," ","r","e","q","u","i","r","e","d">>)
    ELSE IF cfgp[1].PushoverAPIToken = << >> THEN Err(<<"P","U","S","H","O","V","E","R","_","A","P","I","_","T","O","K","E","N"," ","i","s"," ","r","e","q","u","i","r","e","d">>)
    ELSE NilError

\* A validator is ValidateConfig, or a stub that returns a fixed error value
\* (nil for the stubs of TestWithValidation_MultipleValidators).
ValidatorValidateConfig == [kind |-> "ValidateConfig", err |-> NilError]
StubValidator(err) == [kind |-> "stub", err |-> err]

ApplyValidator(v, cfgp) == IF v.kind = "ValidateConfig" THEN ValidateConfig(cfgp) ELSE v.err

\* the loop over the validators: ran lists the positions of the validators called
RECURSIVE RunValidators(_, _, _, _)
RunValidators(validators, k, cfgp, ran) ==
    IF k > Len(validators)
    THEN [err |-> NilError, ran |-> ran]
    ELSE LET err == ApplyValidator(validators[k], cfgp)
         IN  IF ~err.nil
             THEN [err |-> err, ran |-> Append(ran, k)]
             ELSE RunValidators(validators, k + 1, cfgp, Append(ran, k))

\* one call of the loader WithValidation(loader, validators...) returns
WithValidation_KeepsConfig(loader, validators) ==
    LET l == CallLoader(loader)
    IN  IF ~l.err.nil
        THEN [cfg |-> << >>, err |-> l.err, ran |-> << >>]
        ELSE LET v == RunValidators(validators, 1, l.cfg, << >>)
             IN  [cfg |-> l.cfg, err |-> v.err, ran |-> v.ran]

WithValidation(loader, validators) ==
    LET l == CallLoader(loader)
    IN  IF ~l.err.nil
        THEN [cfg |-> << >>, err |-> l.err, ran |-> << >>]
        ELSE LET v == RunValidators(validators, 1, l.cfg, << >>)
             IN  IF ~v.err.nil
                 THEN [cfg |-> << >>, err |-> v.err, ran |-> v.ran]
                 ELSE [cfg |-> l.cfg, err |-> NilError, ran |-> v.ran]

(***************************************************************************)
(* internal/handlers/message.go                                            *)
(***************************************************************************)
defaultIfEmpty(value, defaultValue) == IF value = << >> THEN defaultValue ELSE value

\* normalizeString with transform = strings.ToUpper
normalizeUpper(value, defaultValue) ==
    IF value = << >> THEN ToUpper(defaultValue) ELSE ToUpper(value)

\* normalizeString with transform = strings.ToLower
normalizeLower_RawDefault(value, defaultValue) ==
    IF value = << >> THEN defaultValue ELSE ToLower(value)

normalizeLower(value, defaultValue) ==
    IF value = << >> THEN ToLower(defaultValue) ELSE ToLower(value)

BuildPushoverMessage(alert) ==
    LET severity == normalizeUpper(alert.Severity, DefaultSeverity)
        reason == defaultIfEmpty(alert.Reason, DefaultValue)
        controller == defaultIfEmpty(alert.ReportingController, DefaultValue)
        revision == defaultIfEmpty(alert.Metadata.Revision, DefaultValue)
        kind == normalizeLower(alert.InvolvedObject.Kind, DefaultValue)
        objectName == defaultIfEmpty(alert.InvolvedObject.Name, DefaultValue)
        message == defaultIfEmpty(alert.Message, NoMessage)
    IN  reason \o <<" ","[">> \o severity \o <<"]","\n">> \o message \o <<"\n","\n","C","o","n","t","r","o","l","l","e","r",":"," ">> \o controller
        \o <<"\n","O","b","j","e","c","t",":"," ">> \o kind \o <<"/">> \o objectName \o <<"\n","R","e","v","i","s","i","o","n",":"," ">> \o revision \o <<"\n">>

CreatePushoverMessage_Swapped(c, message) ==
    [Token |-> c.PushoverUserKey, User |-> c.PushoverAPIToken, Title |-> AppTitle, Message |-> message]

CreatePushoverMessage(c, message) ==
    [Token |-> c.PushoverAPIToken, User |-> c.PushoverUserKey, Title |-> AppTitle, Message |-> message]

\* ValidateAlert is handed the address of a local variable, which is never nil
ValidateAlert(alert) == TRUE

ExtractAlertInfo(alert) ==
    [severity |-> defaultIfEmpty(alert.Severity, DefaultSeverity),
     reason |-> defaultIfEmpty(alert.Reason, DefaultValue),
     controller |-> defaultIfEmpty(alert.ReportingController, DefaultValue),
     revision |-> defaultIfEmpty(alert.Metadata.Revision, DefaultValue),
     kind |-> defaultIfEmpty(alert.InvolvedObject.Kind, DefaultValue),
     name |-> defaultIfEmpty(alert.InvolvedObject.Name, DefaultValue),
     namespace |-> defaultIfEmpty(alert.InvolvedObject.Namespace, <<"d","e","f","a","u","l","t">>),
     message |-> defaultIfEmpty(alert.Message, NoMessage)]

(***************************************************************************)
(* Request bodies.  A body is described by what json.Decoder sees in it:   *)
(*   json     - what the first JSON value of the body is                   *)
(*   alert    - the alert that value carries, when json = "alert"          *)
(*   valueLen - number of bytes up to and including the end of the first   *)
(*              JSON value, or up to the byte at which the scanner reports *)
(*              a syntax error; 0 when the body ends before either         *)
(*   size     - number of bytes of the whole body                          *)
(***************************************************************************)
AlertE2E == [ZeroAlert EXCEPT !.Severity = <<"e","r","r","o","r">>, !.Message = <<"m">>, !.Reason = <<"R">>]

AlertFull ==
    [ZeroAlert EXCEPT !.Severity = <<"W","a","r","n">>, !.Message = <<"f","a","i","l">>, !.Reason = <<"R","c">>,
                      !.ReportingController = <<"k","c">>, !.Metadata.Revision = <<"m","/","1">>,
                      !.InvolvedObject.Kind = <<"G","i","t","R","e","p","o">>, !.InvolvedObject.Name = <<"a","p","p">>,
                      !.InvolvedObject.Namespace = <<"n","s">>]

Body(json, alert, valueLen, size) ==
    [json |-> json, alert |-> alert, valueLen |-> valueLen, size |-> size]

EmptyBody == Body("none", ZeroAlert, 0, 0)

\* {}  and  {"severity":"error","message":"m","reason":"R"}
BodyEmptyObject == Body("alert", ZeroAlert, 2, 2)
BodyE2E == Body("alert", AlertE2E, 47, 47)
BodyFull == Body("alert", AlertFull, 160, 160)
\* a valid alert of exactly MaxBodySize bytes
BodyAtLimit == Body("alert", AlertE2E, MaxBodySize, MaxBodySize)
\* a single alert object longer than MaxBodySize (a 2 MiB message)
BodyHugeValue == Body("alert", AlertE2E, 2 * MaxBodySize + 14, 2 * MaxBodySize + 14)
\* a small alert object followed by trailing bytes, more than MaxBodySize in all
BodyPadded == Body("alert", AlertE2E, 47, MaxBodySize + 1)
\* {"severity":"error","extra":"x"}
BodyUnknownTop == Body("unknown_field", ZeroAlert, 32, 32)
\* {"metadata":{"extra":"x"}}
BodyUnknownNested == Body("unknown_field", ZeroAlert, 26, 26)
\* {"severity":5}
BodyWrongType == Body("wrong_type", ZeroAlert, 14, 14)
\* invalid json
BodySyntax == Body("syntax", ZeroAlert, 1, 12)
\* {"severity":"err
BodyTruncated == Body("none", ZeroAlert, 0, 16)

Bodies ==
    {EmptyBody, BodyEmptyObject, BodyE2E, BodyFull, BodyAtLimit, BodyHugeValue, BodyPadded,
     BodyUnknownTop, BodyUnknownNested, BodyWrongType, BodySyntax, BodyTruncated}

\* json.Decoder.Decode reading through http.MaxBytesReader(w, r.Body, MaxBodySize)
\* with DisallowUnknownFields: the decoder reads until the first JSON value is
\* complete and never looks at what follows it; the reader fails once more than
\* limit bytes are asked of it.
Decode_AllowUnknown(body, limit) ==
    IF body.valueLen = 0
    THEN [err |-> Err(IF body.size > limit THEN <<"h","t","t","p",":"," ","r","e","q","u","e","s","t"," ","b","o","d","y"," ","t","o","o"," ","l","a","r","g","e">>
                      ELSE IF body.size = 0 THEN <<"E","O","F">> ELSE <<"u","n","e","x","p","e","c","t","e","d"," ","E","O","F">>),
          alert |-> ZeroAlert]
    ELSE IF body.valueLen > limit
    THEN [err |-> Err(<<"h","t","t","p",":"," ","r","e","q","u","e","s","t"," ","b","o","d","y"," ","t","o","o"," ","l","a","r","g","e">>), alert |-> ZeroAlert]
    ELSE IF body.json = "syntax"
    THEN [err |-> Err(<<"i","n","v","a","l","i","d"," ","c","h","a","r","a","c","t","e","r">>), alert |-> ZeroAlert]
    ELSE IF body.json = "wrong_type"
    THEN [err |-> Err(<<"j","s","o","n",":"," ","c","a","n","n","o","t"," ","u","n","m","a","r","s","h","a","l">>), alert |-> ZeroAlert]
    ELSE [err |-> NilError, alert |-> body.alert]

Decode(body, limit) ==
    IF body.valueLen = 0
    THEN [err |-> Err(IF body.size > limit THEN <<"h","t","t","p",":"," ","r","e","q","u","e","s","t"," ","b","o","d","y"," ","t","o","o"," ","l","a","r","g","e">>
                      ELSE IF body.size = 0 THEN <<"E","O","F">> ELSE <<"u","n","e","x","p","e","c","t","e","d"," ","E","O","F">>),
          alert |-> ZeroAlert]
    ELSE IF body.valueLen > limit
    THEN [err |-> Err(<<"h","t","t","p",":"," ","r","e","q","u","e","s","t"," ","b","o","d","y"," ","t","o","o"," ","l","a","r","g","e">>), alert |-> ZeroAlert]
    ELSE IF body.json = "syntax"
    THEN [err |-> Err(<<"i","n","v","a","l","i","d"," ","c","h","a","r","a","c","t","e","r">>), alert |-> ZeroAlert]
    ELSE IF body.json = "unknown_field"
    THEN [err |-> Err(<<"j","s","o","n",":"," ","u","n","k","n","o","w","n"," ","f","i","e","l","d">>), alert |-> ZeroAlert]
    ELSE IF body.json = "wrong_type"
    THEN [err |-> Err(<<"j","s","o","n",":"," ","c","a","n","n","o","t"," ","u","n","m","a","r","s","h","a","l">>), alert |-> ZeroAlert]
    ELSE [err |-> NilError, alert |-> body.alert]

(***************************************************************************)
(* internal/pushover: the Pushover client                                  *)
(***************************************************************************)
\* what the HTTP client's Do can return: a transport error, or a response
DoResults ==
    { [err |-> Err(<<"d","i","a","l"," ","t","c","p",":"," ","c","o","n","n","e","c","t","i","o","n"," ","r","e","f","u","s","e","d">>), status |-> 0, body |-> << >>],
      [err |-> NilError, status |-> 200, body |-> <<"{","\"","s","t","a","t","u","s","\"",":","1","}">>],
      [err |-> NilError, status |-> 500, body |-> <<"b","a","d"," ","\"","t","o","k","e","n","\"">>] }

\* SendMessage for a non-nil message, given what Do returns
SendMessage_Any2xx(msg, do) ==
    IF ~do.err.nil
    THEN Err(<<"f","a","i","l","e","d"," ","t","o"," ","s","e","n","d"," ","r","e","q","u","e","s","t",":"," ">> \o do.err.text)
    ELSE IF do.status < 200 \/ do.status > 299
    THEN Err(<<"p","u","s","h","o","v","e","r"," ","A","P","I"," ","r","e","t","u","r","n","e","d"," ","s","t","a","t","u","s"," ">> \o Itoa(do.status) \o <<":"," ">> \o Take(do.body, 512))
    ELSE NilError

SendMessage_WholeBody(msg, do) ==
    IF ~do.err.nil
    THEN Err(<<"f","a","i","l","e","d"," ","t","o"," ","s","e","n","d"," ","r","e","q","u","e","s","t",":"," ">> \o do.err.text)
    ELSE IF do.status # 200
    THEN Err(<<"p","u","s","h","o","v","e","r"," ","A","P","I"," ","r","e","t","u","r","n","e","d"," ","s","t","a","t","u","s"," ">> \o Itoa(do.status) \o <<":"," ">> \o do.body)
    ELSE NilError

SendMessage(msg, do) ==
    IF ~do.err.nil
    THEN Err(<<"f","a","i","l","e","d"," ","t","o"," ","s","e","n","d"," ","r","e","q","u","e","s","t",":"," ">> \o do.err.text)
    ELSE IF do.status # 200
    THEN Err(<<"p","u","s","h","o","v","e","r"," ","A","P","I"," ","r","e","t","u","r","n","e","d"," ","s","t","a","t","u","s"," ">> \o Itoa(do.status) \o <<":"," ">> \o Take(do.body, 512))
    ELSE NilError

NewPushoverClient(url) == [url |-> url]

\* url.Parse, which http.NewRequestWithContext applies to p.url, rejects a URL
\* whose first segment holds a colon before any scheme
URLParseFails(url) == url # << >> /\ url[1] = ":"

\* the request SendMessage hands to Do
NewRequestWithContext(ctx, method, url, msg) ==
    [ctx |-> ctx, method |-> method, url |-> url, ContentType |-> ContentTypeForm,
     form |-> [token |-> msg.Token, user |-> msg.User, message |-> msg.Message, title |-> msg.Title]]

\* One invocation of SendMessage.  msgp is the *PushoverMessage: << >> for nil,
\* <<msg>> otherwise; do is what the HTTP client's Do returns if it is called.
\* The result carries the returned error, the requests handed to Do, and
\* whether the response body was closed.
SendMessageCall_Retry(p, ctx, msgp, do) ==
    IF msgp = << >>
    THEN [err |-> Err(<<"m","e","s","s","a","g","e"," ","i","s"," ","n","i","l">>), doCalls |-> << >>, bodyClosed |-> FALSE]
    ELSE IF URLParseFails(p.url)
    THEN [err |-> Err(<<"f","a","i","l","e","d"," ","t","o"," ","c","r","e","a","t","e"," ","r","e","q","u","e","s","t",":"," ","p","a","r","s","e"," ","\"">> \o p.url \o <<"\"",":"," ","m","i","s","s","i","n","g"," ","p","r","o","t","o","c","o","l"," ","s","c","h","e","m","e">>),
          doCalls |-> << >>, bodyClosed |-> FALSE]
    ELSE LET req == NewRequestWithContext(ctx, "POST", p.url, msgp[1])
         IN  [err |-> SendMessage(msgp[1], do),
              doCalls |-> IF do.err.nil /\ do.status = 200 THEN <<req>> ELSE <<req, req>>,
              bodyClosed |-> do.err.nil]

SendMessageCall_NilSends(p, ctx, msgp, do) ==
    LET msg == IF msgp = << >> THEN [Token |-> << >>, User |-> << >>, Title |-> << >>, Message |-> << >>]
               ELSE msgp[1]
        req == NewRequestWithContext(ctx, "POST", p.url, msg)
    IN  IF URLParseFails(p.url)
        THEN [err |-> Err(<<"f","a","i","l","e","d"," ","t","o"," ","c","r","e","a","t","e"," ","r","e","q","u","e","s","t",":"," ","p","a","r","s","e"," ","\"">> \o p.url \o <<"\"",":"," ","m","i","s","s","i","n","g"," ","p","r","o","t","o","c","o","l"," ","s","c","h","e","m","e">>),
              doCalls |-> << >>, bodyClosed |-> FALSE]
        ELSE [err |-> IF msgp = << >> THEN Err(<<"m","e","s","s","a","g","e"," ","i","s"," ","n","i","l">>) ELSE SendMessage(msg, do),
              doCalls |-> <<req>>, bodyClosed |-> do.err.nil]

SendMessageCall(p, ctx, msgp, do) ==
    IF msgp = << >>
    THEN [err |-> Err(<<"m","e","s","s","a","g","e"," ","i","s"," ","n","i","l">>), doCalls |-> << >>, bodyClosed |-> FALSE]
    ELSE IF URLParseFails(p.url)
    THEN [err |-> Err(<<"f","a","i","l","e","d"," ","t","o"," ","c","r","e","a","t","e"," ","r","e","q","u","e","s","t",":"," ","p","a","r","s","e"," ","\"">> \o p.url \o <<"\"",":"," ","m","i","s","s","i","n","g"," ","p","r","o","t","o","c","o","l"," ","s","c","h","e","m","e">>),
          doCalls |-> << >>, bodyClosed |-> FALSE]
    ELSE LET req == NewRequestWithContext(ctx, "POST", p.url, msgp[1])
         IN  [err |-> SendMessage(msgp[1], do), doCalls |-> <<req>>, bodyClosed |-> do.err.nil]

(***************************************************************************)
(* net/http.ServeMux as CreateRouter configures it                         *)
(***************************************************************************)
RECURSIVE SplitPath(_, _, _)
SplitPath(p, i, cur) ==
    IF i > Len(p) THEN <<cur>>
    ELSE IF p[i] = "/" THEN <<cur>> \o SplitPath(p, i + 1, << >>)
    ELSE SplitPath(p, i + 1, Append(cur, p[i]))

RECURSIVE CleanSegments(_, _, _)
CleanSegments(segs, i, out) ==
    IF i > Len(segs) THEN out
    ELSE IF segs[i] = << >> \/ segs[i] = <<".">> THEN CleanSegments(segs, i + 1, out)
    ELSE IF segs[i] = <<".",".">>
    THEN CleanSegments(segs, i + 1, IF out = << >> THEN out ELSE SubSeq(out, 1, Len(out) - 1))
    ELSE CleanSegments(segs, i + 1, Append(out, segs[i]))

RECURSIVE JoinPath(_, _)
JoinPath(segs, i) ==
    IF i > Len(segs) THEN << >> ELSE <<"/">> \o segs[i] \o JoinPath(segs, i + 1)

\* path.Clean of a rooted path
PathClean(p) ==
    LET segs == CleanSegments(SplitPath(p, 1, << >>), 1, << >>)
    IN  IF segs = << >> THEN <<"/">> ELSE JoinPath(segs, 1)

\* net/http cleanPath: the canonical path, keeping a trailing slash
cleanPath(p) ==
    IF p = << >> THEN <<"/">>
    ELSE LET q == IF p[1] # "/" THEN <<"/">> \o p ELSE p
             np == PathClean(q)
         IN  IF q[Len(q)] = "/" /\ np # <<"/">> THEN np \o <<"/">> ELSE np

\* the pattern of CreateRouter that matches a path
MatchPattern_Prefix(path) ==
    IF HasPrefix(path, <<"/","h","e","a","l","t","h">>) THEN "/health"
    ELSE IF HasPrefix(path, <<"/","w","e","b","h","o","o","k">>) THEN "/webhook"
    ELSE "/"

MatchPattern(path) ==
    IF path = <<"/","h","e","a","l","t","h">> THEN "/health"
    ELSE IF path = <<"/","w","e","b","h","o","o","k">> THEN "/webhook"
    ELSE "/"

\* ServeMux dispatch: a request other than CONNECT whose path is not canonical
\* is redirected to the canonical path; every other request goes to the handler
\* of the matching pattern
Route(req) ==
    IF req.method = "CONNECT"
    THEN [pattern |-> MatchPattern(req.path), redirect |-> << >>]
    ELSE LET path == cleanPath(req.path)
         IN  IF path # req.path
             THEN [pattern |-> "redirect", redirect |-> path]
             ELSE [pattern |-> MatchPattern(path), redirect |-> << >>]

(***************************************************************************)
(* Requests                                                                *)
(***************************************************************************)
RemoteAddr == <<"1","0",".","0",".","0",".","7",":","4","7","1","1">>

Request(method, path, auth, body) ==
    [method |-> method, path |-> path, auth |-> auth, body |-> body, remoteAddr |-> RemoteAddr]

NoRequest == [method |-> "", path |-> << >>, auth |-> << >>, body |-> EmptyBody, remoteAddr |-> << >>]

\* values of the Authorization header; Header.Get gives "" when it is absent
AuthT == BearerPrefix \o <<"T">>
AuthSentinel == BearerPrefix \o SentinelToken
AuthAbsent == << >>
AuthRawToken == <<"T">>
AuthLowerScheme == <<"b","e","a","r","e","r"," ","T">>

Requests ==
    { Request("POST", <<"/","w","e","b","h","o","o","k">>, AuthT, b) : b \in Bodies }
    \cup { Request("POST", <<"/","w","e","b","h","o","o","k">>, AuthSentinel, b) :
             b \in {BodyE2E, BodyFull, BodyPadded, BodyHugeValue, BodyUnknownTop} }
    \cup { Request("POST", <<"/","w","e","b","h","o","o","k">>, a, BodyE2E) : a \in {AuthAbsent, AuthRawToken, AuthLowerScheme} }
    \cup { Request("OPTIONS", <<"/","w","e","b","h","o","o","k">>, AuthAbsent, EmptyBody),
           Request("OPTIONS", <<"/","w","e","b","h","o","o","k">>, AuthAbsent, BodyE2E),
           Request("OPTIONS", <<"/","w","e","b","h","o","o","k">>, AuthT, BodyE2E) }
    \cup { Request("GET", <<"/","w","e","b","h","o","o","k">>, a, EmptyBody) : a \in {AuthAbsent, AuthT, AuthSentinel} }
    \cup { Request("CONNECT", <<"/","w","e","b","h","o","o","k">>, AuthAbsent, EmptyBody),
           Request("DELETE", <<"/","w","e","b","h","o","o","k">>, AuthT, BodyE2E) }
    \cup { Request("GET", <<"/","h","e","a","l","t","h">>, AuthAbsent, EmptyBody),
           Request("POST", <<"/","h","e","a","l","t","h">>, AuthT, BodyE2E) }
    \cup { Request(m, <<"/">>, AuthAbsent, EmptyBody) : m \in {"GET", "OPTIONS"} }
    \cup { Request("POST", p, AuthT, BodyE2E) :
             p \in {<<"/","w","e","b","h","o","o","k","/">>, <<"/","/","w","e","b","h","o","o","k">>, <<"/","x","/",".",".","/","w","e","b","h","o","o","k">>, <<"/",".","/","h","e","a","l","t","h">>} }
    \cup { Request("GET", p, AuthAbsent, EmptyBody) : p \in {<<"/","x">>, <<"/","/">>, <<"/","h","e","a","l","t","h","/",".",".">>, <<"/","a","/","/","b","/">>} }
    \cup { Request("CONNECT", <<"/","/","h","e","a","l","t","h">>, AuthAbsent, EmptyBody) }

(***************************************************************************)
(* A connection: the request being served, the http.ResponseWriter, and    *)
(* what the handler's collaborators (decoder, message builder, Pushover    *)
(* client, logger) have seen on its behalf.                                 *)
(***************************************************************************)
NoHeader == [ContentType |-> "", Location |-> << >>]

IdleConn ==
    [pc |-> "idle", req |-> NoRequest, reqCtx |-> "live", pattern |-> "",
     status |-> 0, statusWrites |-> 0, header |-> NoHeader, wireHeader |-> NoHeader,
     respBody |-> << >>,
     bodyRead |-> FALSE, decodeOK |-> FALSE, alert |-> ZeroAlert,
     builderCalls |-> << >>, sendCalls |-> << >>, doCalls |-> << >>, upstream |-> << >>,
     sendErr |-> NilError,
     log |-> << >>]

\* w.WriteHeader: the first call fixes the status and the headers on the wire
WriteHeader(c, code) ==
    IF c.statusWrites = 0
    THEN [c EXCEPT !.status = code, !.statusWrites = 1, !.wireHeader = c.header]
    ELSE [c EXCEPT !.statusWrites = @ + 1]

\* w.Write: an implicit WriteHeader(200) when no status was written yet
Write(c, b) ==
    LET c1 == IF c.statusWrites = 0 THEN WriteHeader(c, 200) ELSE c
    IN  [c1 EXCEPT !.respBody = @ \o b]

\* deps.Logger.Printf / Println
Logf(c, format, args) == [c EXCEPT !.log = Append(@, [format |-> format, args |-> args])]

writeJSONResponse_HeaderLate(c, statusCode, body) ==
    Write([WriteHeader(c, statusCode) EXCEPT !.header.ContentType = ContentTypeJSON], body)

writeJSONResponse(c, statusCode, body) ==
    Write(WriteHeader([c EXCEPT !.header.ContentType = ContentTypeJSON], statusCode), body)

\* http.Redirect, as the mux's RedirectHandler(url, StatusMovedPermanently) calls it
Redirect(c, req, url) ==
    LET c1 == [c EXCEPT !.header.Location = url]
        c2 == IF req.method \in {"GET", "HEAD"}
              THEN [c1 EXCEPT !.header.ContentType = "text/html; charset=utf-8"]
              ELSE c1
        c3 == WriteHeader(c2, 301)
    IN  IF req.method = "GET"
        THEN Write(c3, <<"<","a"," ","h","r","e","f","=","\"">> \o url \o <<"\"",">","M","o","v","e","d"," ","P","e","r","m","a","n","e","n","t","l","y","<","/","a",">",".","\n","\n">>)
        ELSE c3

(***************************************************************************)
(* internal/handlers/handlers.go                                           *)
(***************************************************************************)
RootHandler(c, req) == Write(WriteHeader(c, 400), ResponseRootError)

HealthHandler_GetOnly(c, req) ==
    IF req.method = "GET"
    THEN Write(WriteHeader(c, 200), ResponseHealthy)
    ELSE WriteHeader(c, 405)

HealthHandler(c, req) == Write(WriteHeader(c, 200), ResponseHealthy)

\* the authorization check of the webhook handler
Authorized_OrAbsent(req) == req.auth = cfg.BearerToken \/ req.auth = << >>

Authorized(req) == req.auth = cfg.BearerToken

\* the test-mode check of the webhook handler
TestMode_Never == FALSE

TestMode == cfg.PushoverAPIToken = SentinelToken

\* the body of the 500 response
SendFailureBody(err) ==
    <<"{","\"","e","r","r","o","r","\"",":"," ","\"","F","a","i","l","e","d"," ","t","o"," ","s","e","n","d"," ","t","o"," ","P","u","s","h","o","v","e","r","\"",","," ","\"","d","e","t","a","i","l","s","\"",":"," ","\"">> \o err.text \o <<"\"","}">>

\* deps.PushoverClient, as CreateServerDependencies builds it
DepsPushoverClient == NewPushoverClient(cfg.PushoverURL)

\* the context handed to SendMessage
SendContext == [parent |-> "Background", timeoutSeconds |-> 10]

\* the webhook handler from the body-size limit up to the call of SendMessage
ProcessBody(c, req) ==
    LET d == Decode(req.body, MaxBodySize)
        c1 == [c EXCEPT !.bodyRead = TRUE, !.decodeOK = d.err.nil]
    IN  IF ~d.err.nil
        THEN writeJSONResponse(Logf(c1, "Failed to parse JSON: %v", <<d.err.text>>),
                               400, ResponseInvalidJSON)
        ELSE IF ~ValidateAlert(d.alert)
        THEN writeJSONResponse(Logf(c1, "Invalid alert: %v", <<<<"a","l","e","r","t"," ","i","s"," ","n","i","l">>>>),
                               400, ResponseInvalidJSON)
        ELSE LET message == BuildPushoverMessage(d.alert)
                 c2 == [c1 EXCEPT !.alert = d.alert, !.builderCalls = Append(@, d.alert)]
             IN  IF TestMode
                 THEN writeJSONResponse(Logf(c2, "Test mode: not sending to Pushover", << >>),
                                        200, ResponseOK)
                 ELSE [c2 EXCEPT !.pc = "sending",
                                 !.sendCalls = Append(@, [ctx |-> SendContext,
                                                          msg |-> CreatePushoverMessage(cfg, message)])]

\* the webhook handler after SendMessage has returned err
FinishSend_AlwaysOK(c, err) ==
    writeJSONResponse([c EXCEPT !.sendErr = err], 200, ResponseOK)

FinishSend_NoReturn(c, err) ==
    LET c1 == [c EXCEPT !.sendErr = err]
        c2 == IF ~err.nil
              THEN writeJSONResponse(Logf(c1, "Failed to send to Pushover: %v", <<err.text>>),
                                     500, SendFailureBody(err))
              ELSE c1
        info == ExtractAlertInfo(c2.alert)
    IN  writeJSONResponse(
            Logf(c2, "Successfully sent alert to Pushover for %s/%s", <<info.kind, info.name>>),
            200, ResponseOK)

FinishSend(c, err) ==
    LET c1 == [c EXCEPT !.sendErr = err]
    IN  IF ~err.nil
        THEN writeJSONResponse(Logf(c1, "Failed to send to Pushover: %v", <<err.text>>),
                               500, SendFailureBody(err))
        ELSE LET info == ExtractAlertInfo(c1.alert)
             IN  writeJSONResponse(
                     Logf(c1, "Successfully sent alert to Pushover for %s/%s", <<info.kind, info.name>>),
                     200, ResponseOK)

\* the webhook handler up to its first return or its call of SendMessage
WebhookHandler_NoPreflight(c, req) ==
    IF req.method # "POST"
    THEN writeJSONResponse(Logf(c, "Invalid method %s from %s", <<req.method, req.remoteAddr>>),
                           405, ResponseMethodNotAllowed)
    ELSE IF ~Authorized(req)
    THEN writeJSONResponse(Logf(c, "Unauthorized request from %s", <<req.remoteAddr>>),
                           401, ResponseUnauthorized)
    ELSE ProcessBody(c, req)

WebhookHandler_AuthFirst(c, req) ==
    IF req.method = "OPTIONS"
    THEN WriteHeader(c, 200)
    ELSE IF ~Authorized(req)
    THEN writeJSONResponse(Logf(c, "Unauthorized request from %s", <<req.remoteAddr>>),
                           401, ResponseUnauthorized)
    ELSE IF req.method # "POST"
    THEN writeJSONResponse(Logf(c, "Invalid method %s from %s", <<req.method, req.remoteAddr>>),
                           405, ResponseMethodNotAllowed)
    ELSE ProcessBody(c, req)

WebhookHandler(c, req) ==
    IF req.method = "OPTIONS"
    THEN WriteHeader(c, 200)
    ELSE IF req.method # "POST"
    THEN writeJSONResponse(Logf(c, "Invalid method %s from %s", <<req.method, req.remoteAddr>>),
                           405, ResponseMethodNotAllowed)
    ELSE IF ~Authorized(req)
    THEN writeJSONResponse(Logf(c, "Unauthorized request from %s", <<req.remoteAddr>>),
                           401, ResponseUnauthorized)
    ELSE ProcessBody(c, req)

\* the router of CreateRouter serving one request
Serve_SharedHeader(req) ==
    LET r == Route(req)
        c == [IdleConn EXCEPT !.req = req, !.pattern = r.pattern, !.header = conn[1].header]
        c1 == IF r.pattern = "redirect" THEN Redirect(c, req, r.redirect)
              ELSE IF r.pattern = "/health" THEN HealthHandler(c, req)
              ELSE IF r.pattern = "/webhook" THEN WebhookHandler(c, req)
              ELSE RootHandler(c, req)
    IN  IF c1.pc = "sending" THEN c1 ELSE [c1 EXCEPT !.pc = "done"]

Serve(req) ==
    LET r == Route(req)
        c == [IdleConn EXCEPT !.req = req, !.pattern = r.pattern]
        c1 == IF r.pattern = "redirect" THEN Redirect(c, req, r.redirect)
              ELSE IF r.pattern = "/health" THEN HealthHandler(c, req)
              ELSE IF r.pattern = "/webhook" THEN WebhookHandler(c, req)
              ELSE RootHandler(c, req)
    IN  IF c1.pc = "sending" THEN c1 ELSE [c1 EXCEPT !.pc = "done"]

(***************************************************************************)
(* The server: connections are served independently of each other          *)
(***************************************************************************)
\* The process (main and RunApp), a call of a configuration loader and a call
\* of the Pushover client are specified further below, each on its own; the
\* values they have while they take no part:
NoApp ==
    [pc |-> "off", args |-> << >>, bridgePort |-> << >>, at8080 |-> "nothing", gets |-> << >>,
     loader |-> FixedLoader(<< >>, NilError), goTest |-> << >>, portFree |-> TRUE,
     cfg |-> << >>, deps |-> FALSE, lis |-> "none", startResult |-> << >>,
     notify |-> FALSE, stop |-> << >>, signalled |-> << >>, inflight |-> 0, served |-> FALSE,
     shutdownCalls |-> 0, lisAtShutdown |-> "", shutdownCtx |-> 0, shutdownResult |-> << >>,
     runResult |-> << >>, exit |-> << >>, cutOff |-> 0, log |-> << >>]

NoLoad ==
    [pc |-> "off", loader |-> FixedLoader(<< >>, NilError), validators |-> << >>,
     out |-> [cfg |-> << >>, err |-> NilError, ran |-> << >>]]

NoBuild == [pc |-> "off", alert |-> ZeroAlert, out |-> << >>]

NoCall ==
    [pc |-> "off", p |-> NewPushoverClient(<< >>), ctx |-> SendContext, msgp |-> << >>,
     upstream |-> << >>, result |-> [err |-> NilError, doCalls |-> << >>, bodyClosed |-> FALSE]]

Init ==
    /\ cfg \in { LoadFromEnv(env) : env \in Environments }
    /\ conn = [i \in Conns |-> IdleConn]
    /\ app = NoApp
    /\ ld = NoLoad
    /\ cli = NoCall
    /\ tf = NoBuild

\* a request arrives on connection i and is served up to the handler's return
\* or up to its call of the Pushover client
ServeHTTP(i, req) ==
    /\ conn[i].pc = "idle"
    /\ conn' = [conn EXCEPT ![i] = Serve(req)]
    /\ UNCHANGED <<cfg, app, ld, cli, tf>>

\* the Pushover client returns to the webhook handler waiting on connection i
SendMessageReturns(i, do) ==
    /\ conn[i].pc = "sending"
    /\ LET call == conn[i].sendCalls[Len(conn[i].sendCalls)]
           r == SendMessageCall(DepsPushoverClient, call.ctx, <<call.msg>>, do)
           c == FinishSend([conn[i] EXCEPT !.upstream = <<do>>, !.doCalls = @ \o r.doCalls], r.err)
       IN  conn' = [conn EXCEPT ![i] = [c EXCEPT !.pc = "done"]]
    /\ UNCHANGED <<cfg, app, ld, cli, tf>>

\* the response has been delivered; the connection serves the next request
Close(i) ==
    /\ conn[i].pc = "done"
    /\ conn' = [conn EXCEPT ![i] = IdleConn]
    /\ UNCHANGED <<cfg, app, ld, cli, tf>>

Next ==
    \/ \E i \in Conns, req \in Requests : ServeHTTP(i, req)
    \/ \E i \in Conns, do \in DoResults : SendMessageReturns(i, do)
    \/ \E i \in Conns : Close(i)

Spec == Init /\ [][Next]_vars

(***************************************************************************)
(* The inbound request's context and the deadline of the outbound call     *)
(***************************************************************************)
\* what Do returns once the context of its request is done
DoContextError(url, reason) ==
    [err |-> Err(<<"P","o","s","t"," ","\"">> \o url \o <<"\"",":"," ">> \o reason), status |-> 0, body |-> << >>]

\* ctx.Done() of the context handed to SendMessage on connection c, before its
\* deadline: a context derived from context.Background() has no parent to end it
CtxDone(c) ==
    /\ c.sendCalls # << >>
    /\ c.sendCalls[Len(c.sendCalls)].ctx.parent = "Request"
    /\ c.reqCtx = "cancelled"

\* the peer abandons connection i while the handler waits for SendMessage:
\* the server cancels r.Context()
InboundCancelled(i) ==
    /\ conn[i].pc = "sending"
    /\ conn[i].reqCtx = "live"
    /\ conn' = [conn EXCEPT ![i].reqCtx = "cancelled"]
    /\ UNCHANGED <<cfg, app, ld, cli, tf>>

\* the 10 seconds of the context handed to SendMessage elapse: Do returns the
\* context's error and the handler answers 500
SendDeadlineExpires_NoDeadline(i) ==
    /\ conn[i].pc = "sending"
    /\ conn[i].sendCalls[Len(conn[i].sendCalls)].ctx.timeoutSeconds = 0
    /\ UNCHANGED vars

SendDeadlineExpires(i) ==
    /\ conn[i].pc = "sending"
    /\ LET call == conn[i].sendCalls[Len(conn[i].sendCalls)]
           do == DoContextError(DepsPushoverClient.url, <<"c","o","n","t","e","x","t"," ","d","e","a","d","l","i","n","e"," ","e","x","c","e","e","d","e","d">>)
           r == SendMessageCall(DepsPushoverClient, call.ctx, <<call.msg>>, do)
           c == FinishSend([conn[i] EXCEPT !.upstream = <<do>>, !.doCalls = @ \o r.doCalls], r.err)
       IN  conn' = [conn EXCEPT ![i] = [c EXCEPT !.pc = "done"]]
    /\ UNCHANGED <<cfg, app, ld, cli, tf>>

CancelRequests ==
    { Request("POST", <<"/","w","e","b","h","o","o","k">>, a, b) : a \in {AuthT, AuthSentinel, AuthAbsent},
                                           b \in {BodyE2E, BodyFull, BodySyntax} }

NextCancel ==
    \/ \E i \in Conns, req \in CancelRequests : ServeHTTP(i, req)
    \/ \E i \in Conns : InboundCancelled(i)
    \/ \E i \in Conns, do \in DoResults : SendMessageReturns(i, do)
    \/ \E i \in Conns : SendDeadlineExpires(i)
    \/ \E i \in Conns : Close(i)

SpecCancel == Init /\ [][NextCancel]_vars

\* the same, with time passing: a handler waiting for SendMessage is not left
\* waiting beyond the deadline of its context
DeadlineRequests ==
    { Request("POST", <<"/","w","e","b","h","o","o","k">>, a, b) : a \in {AuthT, AuthAbsent}, b \in {BodyE2E, BodySyntax} }

NextDeadline ==
    \/ \E i \in Conns, req \in DeadlineRequests : ServeHTTP(i, req)
    \/ \E i \in Conns : InboundCancelled(i)
    \/ \E i \in Conns, do \in DoResults : SendMessageReturns(i, do)
    \/ \E i \in Conns : SendDeadlineExpires(i)
    \/ \E i \in Conns : Close(i)

SpecDeadline ==
    Init /\ [][NextDeadline]_vars /\ \A i \in Conns : WF_vars(SendDeadlineExpires(i))

(***************************************************************************)
(* The process: main, RunApp and internal/server                           *)
(***************************************************************************)
Signals == {[name |-> "interrupt", number |-> 2], [name |-> "SIGTERM", number |-> 15]}

\* what RunApp is started with: the loader, GO_TEST, and whether the port can
\* be bound
AppLoaders ==
    { EnvLoader(env) : env \in { e \in ConfigEnvironments : e.PORT # <<"9","0","9","0">> } }
    \cup { FixedLoader(<< >>, Err(<<"c","o","n","f","i","g"," ","e","r","r","o","r">>)) }

NewApp(loader, goTest, portFree) ==
    [NoApp EXCEPT !.pc = "RunApp", !.loader = loader, !.goTest = goTest, !.portFree = portFree]

Alive(a) == a.exit = << >>

AppLogf(a, format, args) == [a EXCEPT !.log = Append(@, [format |-> format, args |-> args])]

\* os.Exit, the return of main, or death by a signal: every goroutine ends, and
\* with it the requests being served
Exit(a, code) ==
    [a EXCEPT !.exit = <<code>>, !.cutOff = a.inflight, !.inflight = 0,
              !.lis = IF @ = "listening" THEN "closed" ELSE @]

InitApp ==
    /\ app \in { NewApp(l, g, f) : l \in AppLoaders, g \in {<< >>, <<"1">>}, f \in BOOLEAN }
    /\ cfg = NewConfig
    /\ conn = [i \in Conns |-> IdleConn]
    /\ ld = NoLoad
    /\ cli = NoCall
    /\ tf = NoBuild

\* RunApp: load and validate the configuration
LoadConfig ==
    /\ Alive(app) /\ app.pc = "RunApp"
    /\ LET r == WithValidation(app.loader, <<ValidatorValidateConfig>>)
       IN  app' = IF ~r.err.nil
                  THEN [app EXCEPT !.pc = "returned", !.runResult = <<r.err>>]
                  ELSE [app EXCEPT !.pc = "configured", !.cfg = r.cfg]
    /\ UNCHANGED <<cfg, conn, ld, cli, tf>>

\* RunApp: CreateServerDependencies, CreateRouter, NewServer
CreateServer ==
    /\ Alive(app) /\ app.pc = "configured"
    /\ app' = [app EXCEPT !.pc = "created", !.deps = TRUE]
    /\ UNCHANGED <<cfg, conn, ld, cli, tf>>

\* Server.Start: log, spawn the goroutine that runs ListenAndServe, return nil
Start ==
    /\ Alive(app) /\ app.pc = "created"
    /\ app' = [AppLogf(app, "Starting server on %s", <<app.cfg[1].Port>>)
                  EXCEPT !.pc = "started", !.lis = "spawned", !.startResult = <<NilError>>]
    /\ UNCHANGED <<cfg, conn, ld, cli, tf>>

\* Server.WaitForShutdown up to the receive on the stop channel
Notify ==
    /\ Alive(app) /\ app.pc = "started"
    /\ app' = [app EXCEPT !.pc = "waiting", !.notify = TRUE]
    /\ UNCHANGED <<cfg, conn, ld, cli, tf>>

\* the goroutine of Start enters ListenAndServe, which finds the server not
\* shutting down and goes on to bind the port
ListenAndServe ==
    /\ Alive(app) /\ app.lis = "spawned" /\ app.shutdownCalls = 0
    /\ app' = [app EXCEPT !.lis = "binding"]
    /\ UNCHANGED <<cfg, conn, ld, cli, tf>>

\* the goroutine of Start: net.Listen binds the port
Listen ==
    /\ Alive(app) /\ app.lis = "binding" /\ app.portFree
    /\ app' = [app EXCEPT !.lis = "bound"]
    /\ UNCHANGED <<cfg, conn, ld, cli, tf>>

\* the goroutine of Start: Serve registers the listener with the server, which
\* is not shutting down, and starts accepting
ServeListener ==
    /\ Alive(app) /\ app.lis = "bound" /\ app.shutdownCalls = 0
    /\ app' = [app EXCEPT !.lis = "listening"]
    /\ UNCHANGED <<cfg, conn, ld, cli, tf>>

\* the goroutine of Start: Serve finds the server shutting down, closes the
\* listener it was given and returns ErrServerClosed, which is not logged
ServeAfterShutdown ==
    /\ Alive(app) /\ app.lis = "bound" /\ app.shutdownCalls > 0
    /\ app' = [app EXCEPT !.lis = "closed"]
    /\ UNCHANGED <<cfg, conn, ld, cli, tf>>

ExitOnListenFailure_Always(goTest) == TRUE

\* os.Getenv("GO_TEST") != "1"
ExitOnListenFailure(goTest) == goTest # <<"1">>

\* the goroutine of Start: net.Listen fails to bind the port and ListenAndServe
\* returns its error
ListenFails ==
    /\ Alive(app) /\ app.lis = "binding" /\ ~app.portFree
    /\ LET a == AppLogf(app, "Server failed to start: %v",
                        <<<<"l","i","s","t","e","n"," ","t","c","p"," ">> \o app.cfg[1].Port \o <<":"," ","b","i","n","d",":"," ","a","d","d","r","e","s","s"," ","a","l","r","e","a","d","y"," ","i","n"," ","u","s","e">>>>)
       IN  app' = IF ExitOnListenFailure(app.goTest)
                  THEN Exit([a EXCEPT !.lis = "failed"], 1)
                  ELSE [a EXCEPT !.lis = "failed"]
    /\ UNCHANGED <<cfg, conn, ld, cli, tf>>

\* what the goroutine of Start does with the ErrServerClosed of ListenAndServe
ListenAfterShutdown_Logged ==
    /\ Alive(app) /\ app.lis = "spawned" /\ app.shutdownCalls > 0
    /\ LET a == AppLogf(app, "Server failed to start: %v", <<<<"h","t","t","p",":"," ","S","e","r","v","e","r"," ","c","l","o","s","e","d">>>>)
       IN  app' = IF ExitOnListenFailure(app.goTest)
                  THEN Exit([a EXCEPT !.lis = "closed"], 1)
                  ELSE [a EXCEPT !.lis = "closed"]
    /\ UNCHANGED <<cfg, conn, ld, cli, tf>>

\* the goroutine of Start: ListenAndServe on a server that is already shutting
\* down returns ErrServerClosed, which is not logged
ListenAfterShutdown ==
    /\ Alive(app) /\ app.lis = "spawned" /\ app.shutdownCalls > 0
    /\ app' = [app EXCEPT !.lis = "closed"]
    /\ UNCHANGED <<cfg, conn, ld, cli, tf>>

\* the operating system delivers an interrupt or SIGTERM: into the stop channel
\* (capacity 1) once signal.Notify has run, and to the default disposition,
\* which ends the process, before that
Signal(sig) ==
    /\ Alive(app) /\ app.pc \notin {"off"}
    /\ IF app.notify
       THEN /\ app.stop = << >>
            /\ app' = [app EXCEPT !.stop = <<sig.name>>, !.signalled = Append(@, sig.name)]
       ELSE app' = Exit(app, 128 + sig.number)
    /\ UNCHANGED <<cfg, conn, ld, cli, tf>>

\* the server accepts a connection and starts serving its request
Accept ==
    /\ Alive(app) /\ app.lis = "listening" /\ app.inflight < MaxInflight
    /\ app' = [app EXCEPT !.inflight = @ + 1, !.served = TRUE]
    /\ UNCHANGED <<cfg, conn, ld, cli, tf>>

\* a handler returns and its connection goes idle
FinishRequest ==
    /\ Alive(app) /\ app.inflight > 0
    /\ app' = [app EXCEPT !.inflight = @ - 1]
    /\ UNCHANGED <<cfg, conn, ld, cli, tf>>

\* WaitForShutdown receives the signal and calls Shutdown with a context of
\* ShutdownTimeout seconds; http.Server.Shutdown closes the listener at once
BeginShutdown_Unprompted ==
    /\ Alive(app) /\ app.pc = "waiting"
    /\ app' = [AppLogf(app, "Shutting down server...", << >>)
                  EXCEPT !.pc = "shutdown", !.stop = << >>, !.shutdownCalls = @ + 1,
                         !.lisAtShutdown = app.lis,
                         !.shutdownCtx = ShutdownTimeout,
                         !.lis = IF @ = "listening" THEN "closed" ELSE @]
    /\ UNCHANGED <<cfg, conn, ld, cli, tf>>

BeginShutdown ==
    /\ Alive(app) /\ app.pc = "waiting" /\ app.stop # << >>
    /\ app' = [AppLogf(app, "Shutting down server...", << >>)
                  EXCEPT !.pc = "shutdown", !.stop = << >>, !.shutdownCalls = @ + 1,
                         !.lisAtShutdown = app.lis,
                         !.shutdownCtx = ShutdownTimeout,
                         !.lis = IF @ = "listening" THEN "closed" ELSE @]
    /\ UNCHANGED <<cfg, conn, ld, cli, tf>>

\* http.Server.Shutdown finds every connection idle: Shutdown returns nil
ShutdownCompletes ==
    /\ Alive(app) /\ app.pc = "shutdown" /\ app.inflight = 0
    /\ app' = [AppLogf(app, "Server exited", << >>)
                  EXCEPT !.pc = "returned", !.shutdownResult = <<NilError>>,
                         !.runResult = <<NilError>>]
    /\ UNCHANGED <<cfg, conn, ld, cli, tf>>

\* the context of Shutdown expires while a request is still being served:
\* http.Server.Shutdown returns the context's error and leaves the active
\* connections alone; Server.Shutdown wraps the error
GraceExpires ==
    /\ Alive(app) /\ app.pc = "shutdown" /\ app.inflight > 0
    /\ LET err == Err(<<"s","e","r","v","e","r"," ","f","o","r","c","e","d"," ","t","o"," ","s","h","u","t","d","o","w","n",":"," ","c","o","n","t","e","x","t"," ","d","e","a","d","l","i","n","e"," ","e","x","c","e","e","d","e","d">>)
       IN  app' = [app EXCEPT !.pc = "returned", !.shutdownCtx = 0,
                              !.shutdownResult = <<err>>, !.runResult = <<err>>]
    /\ UNCHANGED <<cfg, conn, ld, cli, tf>>

\* main after RunApp has returned: log.Fatalf on an error, else return
MainReturns ==
    /\ Alive(app) /\ app.pc = "returned"
    /\ app' = IF ~app.runResult[1].nil
              THEN Exit([AppLogf(app, "Application failed: %v", <<app.runResult[1].text>>)
                            EXCEPT !.pc = "exited"], 1)
              ELSE Exit([app EXCEPT !.pc = "exited"], 0)
    /\ UNCHANGED <<cfg, conn, ld, cli, tf>>

NextApp ==
    \/ LoadConfig
    \/ CreateServer
    \/ Start
    \/ Notify
    \/ ListenAndServe
    \/ Listen
    \/ ListenFails
    \/ ServeListener
    \/ ListenAfterShutdown
    \/ ServeAfterShutdown
    \/ \E sig \in Signals : Signal(sig)
    \/ Accept
    \/ FinishRequest
    \/ BeginShutdown
    \/ ShutdownCompletes
    \/ GraceExpires
    \/ MainReturns

SpecApp == InitApp /\ [][NextApp]_vars

(***************************************************************************)
(* internal/server used on its own: a caller that creates a Server and     *)
(* calls Start and Shutdown itself                                         *)
(***************************************************************************)
\* the grace period the caller gives Shutdown, in seconds
CallerTimeout == 5

InitServer ==
    /\ app \in { [NoApp EXCEPT !.pc = "created", !.cfg = <<LoadFromEnv(env)>>, !.deps = TRUE,
                                !.goTest = g, !.portFree = f] :
                  env \in Environments, g \in {<< >>, <<"1">>}, f \in BOOLEAN }
    /\ cfg = NewConfig
    /\ conn = [i \in Conns |-> IdleConn]
    /\ ld = NoLoad
    /\ cli = NoCall
    /\ tf = NoBuild

\* the caller calls Server.Shutdown, whether or not it has called Start and
\* wherever the goroutine of Start has got to: log, then http.Server.Shutdown
\* marks the server as shutting down and closes the registered listener
Shutdown ==
    /\ Alive(app) /\ app.pc \in {"created", "started"}
    /\ app' = [AppLogf(app, "Shutting down server...", << >>)
                  EXCEPT !.pc = "shutdown", !.shutdownCalls = @ + 1,
                         !.lisAtShutdown = app.lis,
                         !.shutdownCtx = CallerTimeout,
                         !.lis = IF @ = "listening" THEN "closed" ELSE @]
    /\ UNCHANGED <<cfg, conn, ld, cli, tf>>

\* http.Server.Shutdown finds no connection busy: Server.Shutdown logs and
\* returns nil to the caller
ShutdownReturnsNil ==
    /\ Alive(app) /\ app.pc = "shutdown" /\ app.inflight = 0
    /\ app' = [AppLogf(app, "Server exited", << >>)
                  EXCEPT !.pc = "shutdownReturned", !.shutdownResult = <<NilError>>]
    /\ UNCHANGED <<cfg, conn, ld, cli, tf>>

\* the caller's context expires while a request is still being served
ShutdownReturnsError ==
    /\ Alive(app) /\ app.pc = "shutdown" /\ app.inflight > 0
    /\ app' = [app EXCEPT !.pc = "shutdownReturned", !.shutdownCtx = 0,
                          !.shutdownResult =
                              <<Err(<<"s","e","r","v","e","r"," ","f","o","r","c","e","d"," ","t","o"," ","s","h","u","t","d","o","w","n",":"," ","c","o","n","t","e","x","t"," ","d","e","a","d","l","i","n","e"," ","e","x","c","e","e","d","e","d">>)>>]
    /\ UNCHANGED <<cfg, conn, ld, cli, tf>>

NextServer ==
    \/ Start
    \/ Shutdown
    \/ ListenAndServe
    \/ Listen
    \/ ListenFails
    \/ ServeListener
    \/ ListenAfterShutdown
    \/ ServeAfterShutdown
    \/ Accept
    \/ FinishRequest
    \/ ShutdownReturnsNil
    \/ ShutdownReturnsError

SpecServer == InitServer /\ [][NextServer]_vars

(***************************************************************************)
(* main with its command line: the bridge, or the self-check of -health    *)
(***************************************************************************)
\* os.Args[1:]
MainArgs == { << >>, <<<<"-","h","e","a","l","t","h">>>>, <<<<"-","h","e","a","l","t","h">>, <<"-","v">>>>, <<<<"-","-","h","e","a","l","t","h">>>>, <<<<"s","e","r","v","e">>, <<"-","h","e","a","l","t","h">>>> }

\* the URL main hands to HealthCheck
HealthURL == <<"h","t","t","p",":","/","/","l","o","c","a","l","h","o","s","t",":","8","0","8","0","/","h","e","a","l","t","h">>

\* The self-check runs next to a bridge listening on the port of its
\* configuration.  at8080 says what answers on localhost:8080: the bridge
\* (only when that is its port), nothing, or a foreign server with a status.
HealthEnvironments ==
    { [bridgePort |-> LoadFromEnv(env).Port, at8080 |-> w] :
        env \in ConfigEnvironments,
        w \in {"bridge", "nothing", "foreign 200", "foreign 404"} }

HealthEnvironmentOK(e) ==
    /\ e.at8080 = "bridge" => e.bridgePort = <<":","8","0","8","0">>
    /\ e.at8080 \in {"foreign 200", "foreign 404"} => e.bridgePort # <<":","8","0","8","0">>

\* what http.Get(url) returns in the environment of process a
Get(a, url) ==
    IF url = HealthURL /\ a.at8080 = "bridge"
    THEN [err |-> NilError,
          status |-> HealthHandler(IdleConn, Request("GET", <<"/","h","e","a","l","t","h">>, AuthAbsent, EmptyBody)).status]
    ELSE IF url = HealthURL /\ a.at8080 = "foreign 200" THEN [err |-> NilError, status |-> 200]
    ELSE IF url = HealthURL /\ a.at8080 = "foreign 404" THEN [err |-> NilError, status |-> 404]
    ELSE [err |-> Err(<<"G","e","t"," ","\"">> \o url \o <<"\"",":"," ","d","i","a","l"," ","t","c","p",":"," ","c","o","n","n","e","c","t",":"," ","c","o","n","n","e","c","t","i","o","n"," ","r","e","f","u","s","e","d">>), status |-> 0]

\* server.HealthCheck, given what http.Get returned
HealthCheck(get) ==
    IF ~get.err.nil THEN Err(<<"h","e","a","l","t","h"," ","c","h","e","c","k"," ","f","a","i","l","e","d",":"," ">> \o get.err.text)
    ELSE IF get.status # 200 THEN Err(<<"h","e","a","l","t","h"," ","c","h","e","c","k"," ","r","e","t","u","r","n","e","d"," ","s","t","a","t","u","s"," ">> \o Itoa(get.status))
    ELSE NilError

InitMain ==
    /\ app \in { [NewApp(l, g, f) EXCEPT !.pc = "main", !.args = a] :
                    l \in AppLoaders, g \in {<< >>, <<"1">>}, f \in BOOLEAN,
                    a \in { x \in MainArgs : x = << >> \/ x[1] # <<"-","h","e","a","l","t","h">> } }
               \cup
               { [NewApp(EnvLoader(CHOOSE env \in Environments : env.PORT = << >>), << >>, TRUE)
                    EXCEPT !.pc = "main", !.args = a, !.bridgePort = e.bridgePort, !.at8080 = e.at8080] :
                    a \in { x \in MainArgs : x # << >> /\ x[1] = <<"-","h","e","a","l","t","h">> },
                    e \in { x \in HealthEnvironments : HealthEnvironmentOK(x) } }
    /\ cfg = NewConfig
    /\ conn = [i \in Conns |-> IdleConn]
    /\ ld = NoLoad
    /\ cli = NoCall
    /\ tf = NoBuild

\* main: len(os.Args) > 1 && os.Args[1] == "-health"
MainDispatch ==
    /\ Alive(app) /\ app.pc = "main"
    /\ app' = [app EXCEPT !.pc = IF Len(app.args) > 0 /\ app.args[1] = <<"-","h","e","a","l","t","h">>
                                 THEN "health" ELSE "RunApp"]
    /\ UNCHANGED <<cfg, conn, ld, cli, tf>>

\* main in self-check mode: HealthCheck, then os.Exit(1) or os.Exit(0)
HealthCheckRuns ==
    /\ Alive(app) /\ app.pc = "health"
    /\ LET get == Get(app, HealthURL)
           err == HealthCheck(get)
           a == [app EXCEPT !.pc = "exited", !.gets = Append(@, [url |-> HealthURL, result |-> get])]
       IN  app' = IF ~err.nil THEN Exit(a, 1) ELSE Exit(a, 0)
    /\ UNCHANGED <<cfg, conn, ld, cli, tf>>

NextMain ==
    \/ MainDispatch
    \/ HealthCheckRuns
    \/ NextApp

SpecMain == InitMain /\ [][NextMain]_vars

(***************************************************************************)
(* internal/handlers/message.go: calls of the message builder              *)
(***************************************************************************)
\* alerts with every field the builder reads empty or set, and one field it
\* does not read
BuilderAlerts ==
    { [ZeroAlert EXCEPT !.Severity = sv, !.Reason = rs, !.Message = ms,
                        !.ReportingController = rc, !.Metadata.Revision = rv,
                        !.InvolvedObject.Kind = kd, !.InvolvedObject.Name = nm,
                        !.InvolvedObject.Namespace = ns] :
        sv \in {<< >>, <<"W","a","r","n">>}, rs \in {<< >>, <<"R","c">>}, ms \in {<< >>, <<"f","a","i","l">>},
        rc \in {<< >>, <<"k","c">>}, rv \in {<< >>, <<"m","/","1">>}, kd \in {<< >>, <<"G","i","t","R","e","p","o">>},
        nm \in {<< >>, <<"a","p","p">>}, ns \in {<< >>, <<"n","s">>} }

InitMessage ==
    /\ tf \in { [NoBuild EXCEPT !.pc = "ready", !.alert = a] : a \in BuilderAlerts }
    /\ cfg = NewConfig
    /\ conn = [i \in Conns |-> IdleConn]
    /\ app = NoApp
    /\ ld = NoLoad
    /\ cli = NoCall

\* message := BuildPushoverMessage(&alert)
BuildCall ==
    /\ tf.pc = "ready" /\ tf.out = << >>
    /\ tf' = [tf EXCEPT !.out = Append(@, BuildPushoverMessage(tf.alert))]
    /\ UNCHANGED <<cfg, conn, app, ld, cli>>

\* a second call on the same alert
BuildCallAgain ==
    /\ tf.pc = "ready" /\ Len(tf.out) = 1
    /\ tf' = [tf EXCEPT !.pc = "built", !.out = Append(@, BuildPushoverMessage(tf.alert))]
    /\ UNCHANGED <<cfg, conn, app, ld, cli>>

NextMessage ==
    \/ BuildCall
    \/ BuildCallAgain

SpecMessage == InitMessage /\ [][NextMessage]_vars

(***************************************************************************)
(* internal/pushover: calls of SendMessage on a client of its own          *)
(***************************************************************************)
LongBody == [k \in 1..600 |-> "x"]

\* what the HTTP client's Do can return to SendMessage
ClientDoResults ==
    DoResults \cup
    { [err |-> Err(<<"c","o","n","t","e","x","t"," ","d","e","a","d","l","i","n","e"," ","e","x","c","e","e","d","e","d">>), status |-> 0, body |-> << >>],
      [err |-> NilError, status |-> 201, body |-> <<"c","r","e","a","t","e","d">>],
      [err |-> NilError, status |-> 204, body |-> << >>],
      [err |-> NilError, status |-> 404, body |-> <<"n","o","t"," ","f","o","u","n","d">>],
      [err |-> NilError, status |-> 429, body |-> LongBody],
      [err |-> NilError, status |-> 502, body |-> Take(LongBody, 512)],
      [err |-> NilError, status |-> 503, body |-> Take(LongBody, 513)] }

ClientURLs == { NewConfig.PushoverURL, <<"h","t","t","p",":","/","/","t","e","s","t",".","e","x","a","m","p","l","e",".","c","o","m">>, <<":","/","/","b","a","d">> }

ClientMessages ==
    { << >>,
      <<[Token |-> <<"t","e","s","t","_","t","o","k","e","n">>, User |-> <<"t","e","s","t","_","u","s","e","r">>, Title |-> <<"T","e","s","t"," ","T","i","t","l","e">>, Message |-> <<"T","e","s","t"," ","m","e","s","s","a","g","e">>]>>,
      <<[Token |-> <<"T">>, User |-> <<"u","1">>, Title |-> AppTitle, Message |-> BuildPushoverMessage(AlertE2E)]>>,
      <<[Token |-> <<"T">>, User |-> <<"u","1">>, Title |-> AppTitle, Message |-> BuildPushoverMessage(AlertFull)]>>,
      <<[Token |-> << >>, User |-> << >>, Title |-> << >>, Message |-> << >>]>> }

BackgroundContext == [parent |-> "Background", timeoutSeconds |-> 0]

InitClient ==
    /\ cli \in { [NoCall EXCEPT !.pc = "ready", !.p = NewPushoverClient(u), !.ctx = c, !.msgp = m] :
                    u \in ClientURLs, c \in {SendContext, BackgroundContext}, m \in ClientMessages }
    /\ cfg = NewConfig
    /\ conn = [i \in Conns |-> IdleConn]
    /\ app = NoApp
    /\ ld = NoLoad
    /\ tf = NoBuild

\* err := client.SendMessage(ctx, msg), do being what Do returns if it is called
ClientSendMessage(do) ==
    /\ cli.pc = "ready"
    /\ LET r == SendMessageCall(cli.p, cli.ctx, cli.msgp, do)
       IN  cli' = [cli EXCEPT !.pc = "returned", !.result = r,
                              !.upstream = IF r.doCalls = << >> THEN << >> ELSE <<do>>]
    /\ UNCHANGED <<cfg, conn, app, ld, tf>>

NextClient == \E do \in ClientDoResults : ClientSendMessage(do)

SpecClient == InitClient /\ [][NextClient]_vars

(***************************************************************************)
(* internal/config: calls of a loader, bare or wrapped by WithValidation   *)
(***************************************************************************)
ConfigLoaders ==
    { EnvLoader(env) : env \in ConfigEnvironments }
    \cup { FixedLoader(<< >>, Err(<<"l","o","a","d","e","r"," ","e","r","r","o","r">>)),
           FixedLoader(<< >>, NilError),
           FixedLoader(<<NewConfig>>, Err(<<"l","o","a","d","e","r"," ","e","r","r","o","r">>)) }

Validators ==
    { ValidatorValidateConfig, StubValidator(NilError),
      StubValidator(Err(<<"v","a","l","i","d","a","t","o","r"," ","1"," ","f","a","i","l","e","d">>)), StubValidator(Err(<<"v","a","l","i","d","a","t","o","r"," ","2"," ","f","a","i","l","e","d">>)) }

ValidatorLists == UNION { [1..n -> Validators] : n \in 0..MaxValidators }

InitConfig ==
    /\ ld \in { [NoLoad EXCEPT !.pc = "ready", !.loader = l, !.validators = vs] :
                   l \in ConfigLoaders, vs \in ValidatorLists }
    /\ cfg = NewConfig
    /\ conn = [i \in Conns |-> IdleConn]
    /\ app = NoApp
    /\ cli = NoCall
    /\ tf = NoBuild

\* cfg, err := loader()
LoaderCall ==
    /\ ld.pc = "ready"
    /\ LET l == CallLoader(ld.loader)
       IN  ld' = [ld EXCEPT !.pc = "loaded", !.out = [cfg |-> l.cfg, err |-> l.err, ran |-> << >>]]
    /\ UNCHANGED <<cfg, conn, app, cli, tf>>

\* cfg, err := WithValidation(loader, validators...)()
ValidatedLoaderCall ==
    /\ ld.pc = "ready"
    /\ ld' = [ld EXCEPT !.pc = "validated", !.out = WithValidation(ld.loader, ld.validators)]
    /\ UNCHANGED <<cfg, conn, app, cli, tf>>

NextConfig ==
    \/ LoaderCall
    \/ ValidatedLoaderCall

SpecConfig == InitConfig /\ [][NextConfig]_vars

(***************************************************************************)
(* Properties of the request handling                                      *)
(***************************************************************************)
\* connection i is serving, or has served, request c.req in the webhook handler
InWebhook(c) == c.pc # "idle" /\ c.pattern = "/webhook"

AuthenticatedPost(c) ==
    InWebhook(c) /\ c.req.method = "POST" /\ c.req.auth = cfg.BearerToken

NoCollaborator(c) == ~c.bodyRead /\ c.builderCalls = << >> /\ c.sendCalls = << >>

\* C1: a POST to /webhook whose Authorization header is absent or differs from
\* Config.BearerToken is answered 401 {"error": "Unauthorized"}; its body is not
\* read and neither the message builder nor SendMessage is invoked.
C1_UnauthorizedRejected ==
    \A i \in Conns :
        LET c == conn[i]
        IN  (InWebhook(c) /\ c.req.method = "POST" /\ c.req.auth # cfg.BearerToken)
            => /\ c.pc = "done"
               /\ c.status = 401
               /\ c.respBody = ResponseUnauthorized
               /\ NoCollaborator(c)

C1_Witness ==
    \E i, j \in Conns :
        /\ conn[i].pc = "done" /\ conn[i].pattern = "/webhook" /\ conn[i].req.method = "POST"
        /\ conn[i].req.auth = AuthAbsent /\ conn[i].status = 401
        /\ conn[j].pc = "done" /\ conn[j].pattern = "/webhook" /\ conn[j].req.method = "POST"
        /\ conn[j].req.auth \notin {AuthAbsent, cfg.BearerToken} /\ conn[j].status = 401

\* what the first JSON value of a body is when Decode accepts the body
Decodable(body) == body.json = "alert" /\ body.valueLen >= 1 /\ body.valueLen <= MaxBodySize

\* C2: with the sentinel API token, an authenticated POST to /webhook with a
\* decodable body is answered 200 {"status": "ok"} and SendMessage is not invoked.
C2_TestModeBypass ==
    \A i \in Conns :
        LET c == conn[i]
        IN  (AuthenticatedPost(c) /\ cfg.PushoverAPIToken = SentinelToken /\ Decodable(c.req.body))
            => /\ c.pc = "done"
               /\ c.status = 200
               /\ c.respBody = ResponseOK
               /\ c.sendCalls = << >>

C2_Witness ==
    \E i \in Conns :
        /\ cfg.PushoverAPIToken = SentinelToken
        /\ conn[i].pc = "done" /\ AuthenticatedPost(conn[i])
        /\ conn[i].req.body = BodyE2E /\ conn[i].status = 200
        /\ Len(conn[i].builderCalls) = 1

\* C3: without the sentinel, an authenticated POST to /webhook with a decodable
\* body invokes SendMessage exactly once, with Token = the API token, User = the
\* user key, Title = "FluxCD" and Message = the builder's output for the decoded
\* alert; the answer is 200 {"status": "ok"} exactly when that call returns nil.
C3_SendsOnce ==
    \A i \in Conns :
        LET c == conn[i]
        IN  (AuthenticatedPost(c) /\ cfg.PushoverAPIToken # SentinelToken /\ Decodable(c.req.body))
            => /\ Len(c.sendCalls) = 1
               /\ c.sendCalls[1].msg = [Token |-> cfg.PushoverAPIToken,
                                        User |-> cfg.PushoverUserKey,
                                        Title |-> <<"F","l","u","x","C","D">>,
                                        Message |-> BuildPushoverMessage(c.req.body.alert)]
               /\ c.builderCalls = <<c.req.body.alert>>
               /\ (c.pc = "done" =>
                     ((c.status = 200 /\ c.respBody = ResponseOK) <=> c.sendErr.nil))

C3_Witness ==
    \E i, j \in Conns :
        /\ conn[i].pc = "done" /\ AuthenticatedPost(conn[i]) /\ conn[i].req.body = BodyE2E
        /\ conn[i].upstream # << >> /\ conn[i].sendErr.nil /\ conn[i].status = 200
        /\ HasPrefix(conn[i].sendCalls[1].msg.Message, <<"R"," ","[","E","R","R","O","R","]","\n","m">>)
        /\ conn[j].pc = "done" /\ AuthenticatedPost(conn[j]) /\ conn[j].req.body = BodyFull
        /\ conn[j].upstream # << >> /\ ~conn[j].sendErr.nil /\ conn[j].status # 200

\* C4: when SendMessage returns an error, the answer is 500 and its body holds
\* "error": "Failed to send to Pushover" followed by the error's text under
\* "details"; a failed send is never answered 200.
C4_SendFailureIs500 ==
    \A i \in Conns :
        LET c == conn[i]
        IN  (c.pc = "done" /\ c.upstream # << >> /\ ~c.sendErr.nil)
            => /\ c.status = 500
               /\ c.statusWrites = 1
               /\ Contains(c.respBody, <<"\"","e","r","r","o","r","\"",":"," ","\"","F","a","i","l","e","d"," ","t","o"," ","s","e","n","d"," ","t","o"," ","P","u","s","h","o","v","e","r","\"">>)
               /\ c.respBody = <<"{","\"","e","r","r","o","r","\"",":"," ","\"","F","a","i","l","e","d"," ","t","o"," ","s","e","n","d"," ","t","o"," ","P","u","s","h","o","v","e","r","\"",","," ","\"","d","e","t","a","i","l","s","\"",":"," ","\"">>
                               \o c.sendErr.text \o <<"\"","}">>

C4_Witness ==
    \E i, j \in Conns :
        /\ conn[i].pc = "done" /\ conn[i].upstream # << >> /\ ~conn[i].upstream[1].err.nil
        /\ conn[i].status = 500 /\ HasPrefix(conn[i].sendErr.text, <<"f","a","i","l","e","d"," ","t","o"," ","s","e","n","d"," ","r","e","q","u","e","s","t",":"," ">>)
        /\ conn[j].pc = "done" /\ conn[j].upstream # << >> /\ conn[j].upstream[1].status = 500
        /\ conn[j].status = 500 /\ HasPrefix(conn[j].sendErr.text, <<"p","u","s","h","o","v","e","r"," ","A","P","I"," ","r","e","t","u","r","n","e","d"," ","s","t","a","t","u","s"," ","5","0","0",":"," ">>)

\* C5: an authenticated POST to /webhook whose body is larger than MaxBodySize
\* is answered 400, its decoding never succeeds and the Pushover client is not
\* invoked, whatever the body starts with.
C5_OversizedRejected ==
    \A i \in Conns :
        LET c == conn[i]
        IN  (AuthenticatedPost(c) /\ c.req.body.size > MaxBodySize)
            => /\ c.pc = "done"
               /\ c.status = 400
               /\ ~c.decodeOK
               /\ c.sendCalls = << >>

\* the body kinds C6 names: malformed JSON, a wrongly typed field, a field
\* outside the alert schema
FailsDecoding(body) ==
    body.json \in {"syntax", "wrong_type", "unknown_field"} \/ body.valueLen = 0

\* C6: an authenticated POST to /webhook whose body fails decoding is answered
\* 400 with exactly {"error": "Invalid JSON"}, never with the parser's error
\* text, and invokes neither the message builder nor the Pushover client.
C6_DecodeFailureIs400 ==
    \A i \in Conns :
        LET c == conn[i]
        IN  (AuthenticatedPost(c) /\ FailsDecoding(c.req.body))
            => /\ c.pc = "done"
               /\ c.status = 400
               /\ c.respBody = ResponseInvalidJSON
               /\ Len(c.log) = 1 /\ c.log[1].format = "Failed to parse JSON: %v"
               /\ ~Contains(c.respBody, c.log[1].args[1])
               /\ c.builderCalls = << >>
               /\ c.sendCalls = << >>

C6_Witness ==
    \E i, j \in Conns :
        /\ conn[i].pc = "done" /\ AuthenticatedPost(conn[i])
        /\ conn[i].req.body = BodyUnknownNested /\ conn[i].status = 400
        /\ conn[j].pc = "done" /\ AuthenticatedPost(conn[j])
        /\ conn[j].req.body \in {BodySyntax, BodyWrongType, BodyUnknownTop} /\ conn[j].status = 400

\* C7: an OPTIONS request to /webhook is answered 200 with an empty body whatever
\* its Authorization header and body are; the authorization check, the body
\* read, the message builder and the Pushover client are skipped.
C7_OptionsShortCircuit ==
    \A i \in Conns :
        LET c == conn[i]
        IN  (InWebhook(c) /\ c.req.method = "OPTIONS")
            => /\ c.pc = "done"
               /\ c.status = 200
               /\ c.statusWrites = 1
               /\ c.respBody = << >>
               /\ c.log = << >>
               /\ NoCollaborator(c)

C7_Witness ==
    \E i, j \in Conns :
        /\ conn[i].pc = "done" /\ conn[i].pattern = "/webhook" /\ conn[i].req.method = "OPTIONS"
        /\ conn[i].req.auth # cfg.BearerToken /\ conn[i].req.body = BodyE2E /\ conn[i].status = 200
        /\ conn[j].pc = "done" /\ conn[j].pattern = "/webhook" /\ conn[j].req.method = "OPTIONS"
        /\ conn[j].req.auth = cfg.BearerToken /\ conn[j].status = 200

\* C8: a request to /webhook with a method other than OPTIONS and POST is
\* answered 405 {"error": "Method not allowed"} before authorization is examined,
\* whether the Authorization header is missing, wrong or correct, and its body is
\* never read.
C8_MethodBeforeAuth ==
    \A i \in Conns :
        LET c == conn[i]
        IN  (InWebhook(c) /\ c.req.method \notin {"OPTIONS", "POST"})
            => /\ c.pc = "done"
               /\ c.status = 405
               /\ c.respBody = ResponseMethodNotAllowed
               /\ Len(c.log) = 1 /\ c.log[1].format = "Invalid method %s from %s"
               /\ NoCollaborator(c)

C8_Witness ==
    \E i, j \in Conns :
        /\ conn[i].pc = "done" /\ conn[i].pattern = "/webhook" /\ conn[i].req.method = "GET"
        /\ conn[i].req.auth = AuthAbsent /\ conn[i].status = 405
        /\ conn[j].pc = "done" /\ conn[j].pattern = "/webhook"
        /\ conn[j].req.method \in {"GET", "DELETE"}
        /\ conn[j].req.auth = cfg.BearerToken /\ conn[j].status = 405

\* C9: the health handler answers every request 200 "healthy" and never invokes
\* the Pushover client, so its answer does not depend on the upstream.
C9_HealthAlways200 ==
    \A i \in Conns :
        LET c == conn[i]
        IN  (c.pc # "idle" /\ c.pattern = "/health")
            => /\ c.pc = "done"
               /\ c.status = 200
               /\ c.respBody = ResponseHealthy
               /\ c.upstream = << >>
               /\ NoCollaborator(c)

C9_Witness ==
    \E i, j \in Conns :
        /\ conn[i].pc = "done" /\ conn[i].pattern = "/health" /\ conn[i].req.method = "POST"
        /\ conn[i].status = 200
        /\ conn[j].pc = "done" /\ conn[j].upstream # << >> /\ ~conn[j].sendErr.nil

\* C10 as stated: every request whose path is neither exactly /health nor exactly
\* /webhook is answered 400 "Requests need to be made to /webhook".
C10_AnyOtherPathIs400 ==
    \A i \in Conns :
        LET c == conn[i]
        IN  (c.pc # "idle" /\ c.req.path \notin {<<"/","h","e","a","l","t","h">>, <<"/","w","e","b","h","o","o","k">>})
            => /\ c.pc = "done"
               /\ c.status = 400
               /\ c.respBody = ResponseRootError

\* C10, amended: a request to the root path, with any method, and any request
\* whose path is in canonical form and is neither exactly /health nor exactly
\* /webhook, is answered 400 "Requests need to be made to /webhook", without
\* authentication and without invoking the message builder or the Pushover client.
C10_CanonicalOtherPathIs400 ==
    \A i \in Conns :
        LET c == conn[i]
        IN  (/\ c.pc # "idle"
             /\ c.req.path \notin {<<"/","h","e","a","l","t","h">>, <<"/","w","e","b","h","o","o","k">>}
             /\ cleanPath(c.req.path) = c.req.path)
            => /\ c.pc = "done"
               /\ c.status = 400
               /\ c.respBody = ResponseRootError
               /\ c.log = << >>
               /\ NoCollaborator(c)

C10_Witness ==
    \E i, j \in Conns :
        /\ conn[i].pc = "done" /\ conn[i].req.path = <<"/">> /\ conn[i].req.method = "OPTIONS"
        /\ conn[i].status = 400
        /\ conn[j].pc = "done" /\ conn[j].req.path = <<"/","w","e","b","h","o","o","k","/">> /\ conn[j].req.method = "POST"
        /\ conn[j].req.auth = cfg.BearerToken /\ conn[j].status = 400

\* C11: every response of the webhook handler to a non-OPTIONS request has one
\* of the statuses 200, 400, 401, 405, 500 and goes out with Content-Type
\* application/json, the header being set before the status is written; the
\* OPTIONS response and the responses of the root and health handlers never
\* have Content-Type set to application/json.
C11_JSONContentType ==
    \A i \in Conns :
        LET c == conn[i]
        IN  /\ (InWebhook(c) /\ c.pc = "done" /\ c.req.method # "OPTIONS")
                => /\ c.status \in {200, 400, 401, 405, 500}
                   /\ c.statusWrites = 1
                   /\ c.wireHeader.ContentType = ContentTypeJSON
            /\ (c.pc # "idle" /\ (c.pattern \in {"/", "/health"}
                                  \/ (c.pattern = "/webhook" /\ c.req.method = "OPTIONS")))
                => /\ c.header.ContentType # ContentTypeJSON
                   /\ c.wireHeader.ContentType # ContentTypeJSON

C11_Witness ==
    \E i, j \in Conns :
        /\ InWebhook(conn[i]) /\ conn[i].pc = "done" /\ conn[i].status = 500
        /\ conn[i].wireHeader.ContentType = ContentTypeJSON
        /\ conn[j].pc = "done" /\ conn[j].status = 200
        /\ (conn[j].pattern = "/health"
            \/ (conn[j].pattern = "/webhook" /\ conn[j].req.method = "OPTIONS"))
        /\ conn[j].wireHeader.ContentType = ""

\* C12: nothing is retried: a webhook request causes at most one invocation of
\* SendMessage, and an invocation of SendMessage hands at most one request to
\* the HTTP client's Do, also when Do fails or the response is not 200.
C12_NoRetry ==
    \A i \in Conns :
        LET c == conn[i]
        IN  /\ Len(c.sendCalls) <= 1
            /\ Len(c.doCalls) <= Len(c.sendCalls)
            /\ c.pc = "sending" => c.doCalls = << >>

C12_Witness ==
    \E i, j \in Conns :
        /\ conn[i].pc = "done" /\ conn[i].status = 500 /\ Len(conn[i].sendCalls) = 1
        /\ Len(conn[i].doCalls) = 1 /\ ~conn[i].upstream[1].err.nil
        /\ conn[j].pc = "done" /\ conn[j].status = 500 /\ Len(conn[j].sendCalls) = 1
        /\ Len(conn[j].doCalls) = 1 /\ conn[j].upstream[1].err.nil
        /\ conn[j].upstream[1].status = 500

\* C13: the outbound call is tied to the request's lifetime: whenever the
\* inbound request's context has been cancelled while SendMessage is in flight,
\* the context passed to SendMessage is done, without waiting for its deadline.
C13_CancellationPropagates ==
    \A i \in Conns :
        (conn[i].pc = "sending" /\ conn[i].reqCtx = "cancelled") => CtxDone(conn[i])

(***************************************************************************)
(* Properties of the process                                               *)
(***************************************************************************)
\* C14: once the termination signal has been received the server accepts no
\* new connections; Shutdown returns nil, having logged "Server exited", exactly
\* when no request is left unfinished at the end of the grace period; when it
\* returns the error wrapping "server forced to shutdown" the unfinished
\* requests have been terminated; and Shutdown is called at most once.
C14_GracefulShutdown ==
    /\ app.shutdownCalls <= 1
    /\ app.shutdownCalls > 0 => app.lis # "listening"
    /\ app.shutdownResult # << >>
        => IF app.shutdownResult[1].nil
           THEN /\ app.inflight = 0 /\ app.cutOff = 0
                /\ app.log[Len(app.log)].format = "Server exited"
           ELSE /\ HasPrefix(app.shutdownResult[1].text, <<"s","e","r","v","e","r"," ","f","o","r","c","e","d"," ","t","o"," ","s","h","u","t","d","o","w","n">>)
                /\ app.inflight = 0

LogCount(log, format) == Cardinality({ k \in 1..Len(log) : log[k].format = format })

\* C15: Start returns nil whatever becomes of the listener; when ListenAndServe
\* fails with an error other than ErrServerClosed the failure is logged exactly
\* once and the process ends with exit code 1, unless GO_TEST is "1": then the
\* process keeps running, without a listener, and ends only through main or a
\* signal.
C15_StartNeverFails ==
    /\ app.pc \in {"started", "waiting", "shutdown"} => app.startResult = <<NilError>>
    /\ app.startResult # << >> => app.startResult[1].nil
    /\ LogCount(app.log, "Server failed to start: %v") = (IF app.lis = "failed" THEN 1 ELSE 0)
    /\ app.lis = "failed"
        => /\ ~app.served
           /\ app.startResult = <<NilError>>
           /\ IF app.goTest = <<"1">>
              THEN Alive(app) \/ app.pc = "exited" \/ app.exit[1] > 128
              ELSE app.exit = <<1>> /\ app.pc # "exited"

C15_Witness ==
    /\ app.lis = "failed" /\ app.goTest = <<"1">> /\ Alive(app) /\ app.pc = "shutdown"
    /\ app.startResult = <<NilError>>

\* C16: when the configuration loader fails, or the loaded configuration lacks
\* the user key or the API token, RunApp returns that error (the loader's own
\* error; "PUSHOVER_USER_KEY is required" when the user key is missing, also
\* when the token is missing too; "PUSHOVER_API_TOKEN is required" otherwise)
\* without creating dependencies, starting the listener or waiting for a
\* signal; no request is ever served and the process exits non-zero.
C16_ConfigFailureStopsRunApp ==
    LET l == app.loader
        missingUser == l.kind = "env" /\ l.env.PUSHOVER_USER_KEY = << >>
        missingToken == l.kind = "env" /\ l.env.PUSHOVER_API_TOKEN = << >>
        loaderFails == l.kind = "fixed" /\ ~l.err.nil
        expected == IF loaderFails THEN l.err
                    ELSE IF missingUser THEN Err(<<"P","U","S","H","O","V","E","R","_","U","S","E","R","_","K","E","Y"," ","i","s"," ","r","e","q","u","i","r","e","d">>)
                    ELSE Err(<<"P","U","S","H","O","V","E","R","_","A","P","I","_","T","O","K","E","N"," ","i","s"," ","r","e","q","u","i","r","e","d">>)
    IN  (app.pc # "off" /\ (loaderFails \/ missingUser \/ missingToken))
        => /\ app.pc \in {"RunApp", "returned", "exited"}
           /\ app.pc # "RunApp" => app.runResult = <<expected>>
           /\ ~app.deps /\ app.lis = "none" /\ app.startResult = << >>
           /\ ~app.notify /\ app.shutdownCalls = 0 /\ ~app.served
           /\ LogCount(app.log, "Starting server on %s") = 0
           /\ app.pc = "exited" => app.exit = <<1>>
           /\ app.exit # << >> => app.exit[1] # 0

C16_Witness ==
    /\ app.loader.kind = "env"
    /\ app.loader.env.PUSHOVER_USER_KEY = << >> /\ app.loader.env.PUSHOVER_API_TOKEN = << >>
    /\ app.pc = "exited" /\ app.exit = <<1>>
    /\ app.runResult = <<Err(<<"P","U","S","H","O","V","E","R","_","U","S","E","R","_","K","E","Y"," ","i","s"," ","r","e","q","u","i","r","e","d">>)>>

(***************************************************************************)
(* Properties of the configuration                                         *)
(***************************************************************************)
\* C17: WithValidation(loader, v1..vn) returns the loader's error, and runs no
\* validator, when the loader fails; otherwise it runs the validators in order
\* up to and including the first that fails, and returns that validator's error
\* with a nil configuration; when none fails it has run them all and returns
\* the loader's configuration unmodified.
C17_WithValidation ==
    LET l == CallLoader(ld.loader)
        vs == ld.validators
        failing == { k \in 1..Len(vs) : ~ApplyValidator(vs[k], l.cfg).nil }
        first == CHOOSE k \in failing : \A j \in failing : k <= j
    IN  ld.pc = "validated"
        => IF ~l.err.nil
           THEN ld.out = [cfg |-> << >>, err |-> l.err, ran |-> << >>]
           ELSE IF failing # {}
           THEN /\ ld.out.ran = [k \in 1..first |-> k]
                /\ ld.out.err = ApplyValidator(vs[first], l.cfg)
                /\ ld.out.cfg = << >>
           ELSE /\ ld.out.ran = [k \in 1..Len(vs) |-> k]
                /\ ld.out.err = NilError
                /\ ld.out.cfg = l.cfg

C17_Witness ==
    /\ ld.pc = "validated" /\ ld.loader.kind = "env" /\ Len(ld.validators) = 2
    /\ ld.validators[1].kind = "stub" /\ ~ld.validators[1].err.nil
    /\ ld.validators[2].kind = "stub" /\ ~ld.validators[2].err.nil
    /\ ld.validators[1] # ld.validators[2]
    /\ ld.out = [cfg |-> << >>, err |-> ld.validators[1].err, ran |-> <<1>>]

\* C18 as stated: every configuration LoadFromEnv produces has BearerToken
\* equal to "Bearer " followed by PushoverAPIToken.
C18_BearerTokenAlwaysPrefixed ==
    (ld.pc \in {"loaded", "validated"} /\ ld.loader.kind = "env" /\ ld.out.cfg # << >>)
        => ld.out.cfg[1].BearerToken = BearerPrefix \o ld.out.cfg[1].PushoverAPIToken

\* C18: every configuration LoadFromEnv produces has BearerToken equal to
\* "Bearer " followed by PushoverAPIToken when PushoverAPIToken is not empty, and
\* an empty BearerToken when it is empty; PushoverAPIToken is the value of
\* PUSHOVER_API_TOKEN, and the configuration handed on by WithValidation is
\* still the one that was loaded.
C18_BearerTokenPrefixedIfToken ==
    (ld.pc \in {"loaded", "validated"} /\ ld.loader.kind = "env" /\ ld.out.cfg # << >>)
        => LET c == ld.out.cfg[1]
           IN  /\ c.PushoverAPIToken = ld.loader.env.PUSHOVER_API_TOKEN
               /\ c.BearerToken = IF c.PushoverAPIToken = << >> THEN << >>
                                  ELSE BearerPrefix \o c.PushoverAPIToken

C18_Witness ==
    /\ ld.pc = "loaded" /\ ld.loader.kind = "env"
    /\ ld.loader.env.PUSHOVER_API_TOKEN = << >>
    /\ ld.out.cfg # << >> /\ ld.out.cfg[1].BearerToken = << >>

(***************************************************************************)
(* Properties of the Pushover client                                       *)
(***************************************************************************)
\* C19: SendMessage called with a nil message returns the error "message is
\* nil" and hands no request to the HTTP client.
C19_NilMessage ==
    (cli.pc = "returned" /\ cli.msgp = << >>)
        => /\ cli.result.err = Err(<<"m","e","s","s","a","g","e"," ","i","s"," ","n","i","l">>)
           /\ cli.result.doCalls = << >>
           /\ cli.upstream = << >>

C19_Witness ==
    /\ cli.pc = "returned" /\ cli.msgp = << >> /\ ~URLParseFails(cli.p.url)
    /\ cli.result.err = Err(<<"m","e","s","s","a","g","e"," ","i","s"," ","n","i","l">>)

\* C20: SendMessage with a non-nil message returns nil exactly when Do was
\* called, returned no error and the response status is 200; when Do returns an
\* error the result is "failed to send request: " followed by that error; for
\* every other status (201 and 204 among them) the result is "pushover API
\* returned status <code>: <excerpt>", the excerpt being at most the first 512
\* bytes of the response body.
C20_SuccessOnlyOn200 ==
    (cli.pc = "returned" /\ cli.msgp # << >>)
        => LET err == cli.result.err
               called == cli.upstream # << >>
               do == cli.upstream[1]
           IN  /\ err.nil <=> (called /\ do.err.nil /\ do.status = 200)
               /\ (called /\ ~do.err.nil)
                   => err = Err(<<"f","a","i","l","e","d"," ","t","o"," ","s","e","n","d"," ","r","e","q","u","e","s","t",":"," ">> \o do.err.text)
               /\ (called /\ do.err.nil /\ do.status # 200)
                   => /\ ~err.nil
                      /\ HasPrefix(err.text, <<"p","u","s","h","o","v","e","r"," ","A","P","I"," ","r","e","t","u","r","n","e","d"," ","s","t","a","t","u","s"," ">>)
                      /\ Len(err.text) <= 34 + 512
                      /\ do.status = 201 => err.text = <<"p","u","s","h","o","v","e","r"," ","A","P","I"," ","r","e","t","u","r","n","e","d"," ","s","t","a","t","u","s"," ","2","0","1",":"," ","c","r","e","a","t","e","d">>
                      /\ do.status = 204 => err.text = <<"p","u","s","h","o","v","e","r"," ","A","P","I"," ","r","e","t","u","r","n","e","d"," ","s","t","a","t","u","s"," ","2","0","4",":"," ">>
                      /\ do.status = 404 => err.text = <<"p","u","s","h","o","v","e","r"," ","A","P","I"," ","r","e","t","u","r","n","e","d"," ","s","t","a","t","u","s"," ","4","0","4",":"," ","n","o","t"," ","f","o","u","n","d">>
                      /\ do.status = 500 => err.text = <<"p","u","s","h","o","v","e","r"," ","A","P","I"," ","r","e","t","u","r","n","e","d"," ","s","t","a","t","u","s"," ","5","0","0",":"," ","b","a","d"," ","\"","t","o","k","e","n","\"">>
                      /\ do.status = 429
                          => err.text = <<"p","u","s","h","o","v","e","r"," ","A","P","I"," ","r","e","t","u","r","n","e","d"," ","s","t","a","t","u","s"," ","4","2","9",":"," ">> \o [k \in 1..512 |-> "x"]

C20_Witness ==
    /\ cli.pc = "returned" /\ cli.msgp # << >> /\ cli.upstream # << >>
    /\ cli.upstream[1].err.nil /\ cli.upstream[1].status = 204
    /\ cli.result.err = Err(<<"p","u","s","h","o","v","e","r"," ","A","P","I"," ","r","e","t","u","r","n","e","d"," ","s","t","a","t","u","s"," ","2","0","4",":"," ">>)

\* C21: on a non-200 response whose body has n bytes the excerpt that follows
\* "pushover API returned status <code>: " in SendMessage's error is exactly
\* the first min(n, 512) bytes of the body; the response body is closed on every
\* path on which Do returned a response.
C21_ExcerptAndClose ==
    (cli.pc = "returned" /\ cli.upstream # << >> /\ cli.upstream[1].err.nil)
        => LET do == cli.upstream[1]
               n == Len(do.body)
               m == IF n < 512 THEN n ELSE 512
               text == cli.result.err.text
               head == Len(text) - m
           IN  /\ cli.result.bodyClosed
               /\ do.status # 200
                   => /\ head = 29 + Len(Itoa(do.status)) + 2
                      /\ \A k \in 1..m : text[head + k] = do.body[k]
                      /\ text[head - 1] = ":" /\ text[head] = " "

C21_Witness ==
    /\ cli.pc = "returned" /\ cli.upstream # << >> /\ cli.upstream[1].err.nil
    /\ cli.upstream[1].status = 503 /\ Len(cli.upstream[1].body) = 513
    /\ Len(cli.result.err.text) = 34 + 512
    /\ cli.result.bodyClosed

(***************************************************************************)
(* Properties of the self-check                                            *)
(***************************************************************************)
\* C22: in self-check mode the process performs exactly one GET, against the
\* /health endpoint of the bridge on whatever port the bridge listens, and
\* exits with code 0 exactly when that GET returned status 200, with code 1
\* otherwise; it loads no configuration and starts no listener.
C22_SelfCheck ==
    (app.pc = "exited" /\ app.args # << >> /\ app.args[1] = <<"-","h","e","a","l","t","h">>)
        => /\ Len(app.gets) = 1
           /\ app.gets[1].url = <<"h","t","t","p",":","/","/","l","o","c","a","l","h","o","s","t">> \o app.bridgePort \o <<"/","h","e","a","l","t","h">>
           /\ app.exit \in {<<0>>, <<1>>}
           /\ app.exit = <<0>> <=> (app.gets[1].result.err.nil /\ app.gets[1].result.status = 200)
           /\ app.cfg = << >> /\ ~app.deps /\ app.lis = "none" /\ app.startResult = << >>

(***************************************************************************)
(* Properties of the message builder                                       *)
(***************************************************************************)
\* C23: BuildPushoverMessage returns "{reason} [{severity}]\n{message}\n\n
\* Controller: {controller}\nObject: {kind}/{objectName}\nRevision: {revision}\n"
\* with severity in upper case ("INFO" when empty), kind in lower case
\* ("unknown" when empty), "Unknown" for an empty reason, controller, revision
\* or object name and "No Message" for an empty message; two calls on the same
\* alert return the same text; the all-empty alert gives the documented text.
C23_MessageFormat ==
    LET a == tf.alert
        reason == IF a.Reason = << >> THEN <<"U","n","k","n","o","w","n">> ELSE a.Reason
        severity == IF a.Severity = << >> THEN <<"I","N","F","O">> ELSE <<"W","A","R","N">>
        message == IF a.Message = << >> THEN <<"N","o"," ","M","e","s","s","a","g","e">> ELSE a.Message
        controller == IF a.ReportingController = << >> THEN <<"U","n","k","n","o","w","n">> ELSE a.ReportingController
        kind == IF a.InvolvedObject.Kind = << >> THEN <<"u","n","k","n","o","w","n">> ELSE <<"g","i","t","r","e","p","o">>
        objectName == IF a.InvolvedObject.Name = << >> THEN <<"U","n","k","n","o","w","n">> ELSE a.InvolvedObject.Name
        revision == IF a.Metadata.Revision = << >> THEN <<"U","n","k","n","o","w","n">> ELSE a.Metadata.Revision
        expected == reason \o <<" ","[">> \o severity \o <<"]","\n">> \o message \o <<"\n","\n","C","o","n","t","r","o","l","l","e","r",":"," ">>
                    \o controller \o <<"\n","O","b","j","e","c","t",":"," ">> \o kind \o <<"/">> \o objectName
                    \o <<"\n","R","e","v","i","s","i","o","n",":"," ">> \o revision \o <<"\n">>
    IN  /\ \A k \in 1..Len(tf.out) : tf.out[k] = expected
        /\ (tf.out # << >> /\ [a EXCEPT !.InvolvedObject.Namespace = << >>] = ZeroAlert)
            => tf.out[1] = <<"U","n","k","n","o","w","n"," ","[","I","N","F","O","]","\n","N","o"," ","M","e","s","s","a","g","e","\n","\n","C","o","n","t","r","o","l","l","e","r",":"," ","U","n","k","n","o","w","n","\n","O","b","j","e","c","t",":"," ","u","n","k","n","o","w","n","/","U","n","k","n","o","w","n","\n","R","e","v","i","s","i","o","n",":"," ","U","n","k","n","o","w","n","\n">>

C23_Witness ==
    /\ tf.pc = "built" /\ Len(tf.out) = 2
    /\ tf.alert.Severity = <<"W","a","r","n">> /\ tf.alert.InvolvedObject.Kind = << >>
    /\ tf.alert.Reason = << >> /\ tf.alert.Message = <<"f","a","i","l">>
    /\ tf.alert.ReportingController = << >> /\ tf.alert.InvolvedObject.Name = <<"a","p","p">>
    /\ tf.alert.Metadata.Revision = << >>
    /\ tf.out[2] = <<"U","n","k","n","o","w","n"," ","[","W","A","R","N","]","\n","f","a","i","l","\n","\n","C","o","n","t","r","o","l","l","e","r",":"," ","U","n","k","n","o","w","n","\n","O","b","j","e","c","t",":"," ","u","n","k","n","o","w","n","/","a","p","p","\n","R","e","v","i","s","i","o","n",":"," ","U","n","k","n","o","w","n","\n">>

(***************************************************************************)
(* Properties of concurrent requests                                       *)
(***************************************************************************)
\* what a request has when it is the only one the server ever handles: req up
\* to the handler's return or its outbound call, then, once that call has
\* produced the results up, to the handler's return
AloneOutcome(req, up) ==
    LET s == Serve(req)
    IN  IF s.pc = "sending" /\ up # << >>
        THEN LET call == s.sendCalls[Len(s.sendCalls)]
                 r == SendMessageCall(DepsPushoverClient, call.ctx, <<call.msg>>, up[1])
                 c == FinishSend([s EXCEPT !.upstream = up, !.doCalls = @ \o r.doCalls], r.err)
             IN  [c EXCEPT !.pc = "done"]
        ELSE s

C25_HandlerTerminates ==
    /\ [](\A i \in Conns :
            /\ conn[i].pc \in {"idle", "sending", "done"}
            /\ (conn[i].pc = "sending") => (InWebhook(conn[i]) /\ conn[i].statusWrites = 0)
            /\ (conn[i].pc = "done" /\ InWebhook(conn[i])) => conn[i].statusWrites = 1)
    /\ \A i \in Conns :
          (conn[i].pc = "sending") ~> (conn[i].pc = "done" /\ conn[i].statusWrites = 1)

C25_Witness ==
    /\ conn[1].pc = "done" /\ InWebhook(conn[1])
    /\ conn[1].upstream = <<DoContextError(DepsPushoverClient.url, <<"c","o","n","t","e","x","t"," ","d","e","a","d","l","i","n","e"," ","e","x","c","e","e","d","e","d">>)>>
    /\ conn[1].status = 500 /\ conn[1].statusWrites = 1
    /\ conn[1].reqCtx = "cancelled"

(***************************************************************************)
(* Properties of the 500 response                                          *)
(***************************************************************************)
\* JSON text, as far as objects with string members go (RFC 8259)
JSONWhitespace == {" ", "\n", "\r", "\t"}
JSONControl == {"\n", "\r", "\t", "\f"}
JSONEscapes == {"\"", "\\", "/", "b", "f", "n", "r", "t"}
JSONHex == {"0", "1", "2", "3", "4", "5", "6", "7", "8", "9",
            "a", "b", "c", "d", "e", "f", "A", "B", "C", "D", "E", "F"}

RECURSIVE SkipWS(_, _)
SkipWS(t, i) ==
    IF i <= Len(t) /\ t[i] \in JSONWhitespace THEN SkipWS(t, i + 1) ELSE i

\* the index of the quote that closes the string whose content starts at k,
\* 0 when the string is not terminated or holds a raw control character or a
\* bad escape
RECURSIVE ScanString(_, _)
ScanString(t, k) ==
    IF k > Len(t) THEN 0
    ELSE IF t[k] = "\"" THEN k
    ELSE IF t[k] \in JSONControl THEN 0
    ELSE IF t[k] = "\\"
    THEN IF k + 1 <= Len(t) /\ t[k + 1] \in JSONEscapes THEN ScanString(t, k + 2)
         ELSE IF k + 5 <= Len(t) /\ t[k + 1] = "u" /\ \A d \in 2..5 : t[k + d] \in JSONHex
         THEN ScanString(t, k + 6)
         ELSE 0
    ELSE ScanString(t, k + 1)

JSONFail == [ok |-> FALSE, names |-> << >>]

\* the members of an object from the member that starts at i on
RECURSIVE ScanMembers(_, _, _)
ScanMembers(t, i, names) ==
    IF i > Len(t) \/ t[i] # "\"" THEN JSONFail
    ELSE LET e == ScanString(t, i + 1)
             c == SkipWS(t, e + 1)
             v == SkipWS(t, c + 1)
             ve == ScanString(t, v + 1)
             n == SkipWS(t, ve + 1)
             seen == Append(names, SubSeq(t, i + 1, e - 1))
         IN  IF e = 0 \/ c > Len(t) \/ t[c] # ":" THEN JSONFail
             ELSE IF v > Len(t) \/ t[v] # "\"" \/ ve = 0 \/ n > Len(t) THEN JSONFail
             ELSE IF t[n] = "," THEN ScanMembers(t, SkipWS(t, n + 1), seen)
             ELSE IF t[n] = "}" /\ SkipWS(t, n + 1) = Len(t) + 1 THEN [ok |-> TRUE, names |-> seen]
             ELSE JSONFail

\* t read as one JSON object all of whose members are strings
StringObject(t) ==
    LET o == SkipWS(t, 1)
        m == SkipWS(t, o + 1)
    IN  IF o > Len(t) \/ t[o] # "{" THEN JSONFail
        ELSE IF m <= Len(t) /\ t[m] = "}"
        THEN [ok |-> SkipWS(t, m + 1) = Len(t) + 1, names |-> << >>]
        ELSE ScanMembers(t, m, << >>)

ErrorDetailsObject(t) ==
    LET o == StringObject(t)
        names == { o.names[k] : k \in 1..Len(o.names) }
    IN  o.ok /\ <<"e","r","r","o","r">> \in names /\ <<"d","e","t","a","i","l","s">> \in names

\* C26: the body of every 500 response is a well-formed JSON object with string
\* members "error" and "details", whatever text the error of the client holds.
C26_WellFormed500 ==
    \A i \in Conns :
        (conn[i].pc = "done" /\ InWebhook(conn[i]) /\ conn[i].status = 500)
            => ErrorDetailsObject(conn[i].respBody)

(***************************************************************************)
(* Properties of the status written by the webhook handler                 *)
(***************************************************************************)
\* the status the gates of the handler give request c.req, taken in the order
\* method, authorization, decoding, test mode, send
GateStatus(c) ==
    IF c.req.method = "OPTIONS" THEN 200
    ELSE IF c.req.method # "POST" THEN 405
    ELSE IF c.req.auth # cfg.BearerToken THEN 401
    ELSE IF FailsDecoding(c.req.body) \/ c.req.body.valueLen > MaxBodySize THEN 400
    ELSE IF cfg.PushoverAPIToken = SentinelToken THEN 200
    ELSE IF ~c.upstream[1].err.nil \/ c.upstream[1].status # 200 THEN 500
    ELSE 200

\* C27: every execution of the webhook handler writes exactly one status, one
\* of 200, 400, 401, 405 and 500, and the first failing gate in the order
\* method, authorization, decoding, validation, send decides which.
C27_ExactlyOneStatus ==
    \A i \in Conns :
        LET c == conn[i]
        IN  /\ (c.pc = "sending") => c.statusWrites = 0
            /\ (c.pc = "done" /\ InWebhook(c))
                => /\ c.statusWrites = 1
                   /\ c.status \in {200, 400, 401, 405, 500}
                   /\ c.status = GateStatus(c)

C27_Witness ==
    /\ conn[1].pc = "done" /\ InWebhook(conn[1]) /\ conn[1].req.method = "GET"
    /\ conn[1].req.auth = AuthAbsent /\ conn[1].status = 405 /\ conn[1].statusWrites = 1
    /\ conn[2].pc = "done" /\ InWebhook(conn[2]) /\ conn[2].upstream # << >>
    /\ conn[2].status = 500 /\ conn[2].statusWrites = 1

(***************************************************************************)
(* Properties of test mode                                                 *)
(***************************************************************************)
\* C28: with the sentinel API token only the outbound call is bypassed: a POST
\* with a missing or incorrect Authorization header is still answered 401, an
\* undecodable or oversized body still 400, a method other than POST and
\* OPTIONS still 405, and a POST is answered 200 only after the method,
\* authorization and decoding gates have been passed.
C28_TestModeKeepsGates ==
    \A i \in Conns :
        LET c == conn[i]
        IN  (cfg.PushoverAPIToken = SentinelToken /\ InWebhook(c))
            => /\ c.pc = "done" /\ c.sendCalls = << >>
               /\ (c.req.method \notin {"POST", "OPTIONS"}) => c.status = 405
               /\ (c.req.method = "POST" /\ c.req.auth # cfg.BearerToken) => c.status = 401
               /\ (AuthenticatedPost(c)
                      /\ (FailsDecoding(c.req.body) \/ c.req.body.size > MaxBodySize))
                    => c.status = 400
               /\ (c.req.method = "POST" /\ c.status = 200)
                    => (c.req.auth = cfg.BearerToken /\ c.bodyRead /\ c.decodeOK)

(***************************************************************************)
(* Properties of RunApp                                                    *)
(***************************************************************************)
\* C29: with a valid configuration RunApp has called Start before it waits for
\* a signal, calls Shutdown at most once and only after an interrupt or SIGTERM
\* has been received, and returns only after that one call of Shutdown has
\* returned, with Shutdown's result; it never returns while no such signal has
\* been received.
C29_RunAppLifecycle ==
    app.cfg # << >>
        => /\ app.notify => (app.startResult = <<NilError>> /\ app.lis # "none")
           /\ app.shutdownCalls <= 1
           /\ app.shutdownCalls > 0
                => (app.signalled # << >> /\ app.signalled[1] \in {"interrupt", "SIGTERM"})
           /\ (app.shutdownResult = << >>) => (app.runResult = << >>)
           /\ app.runResult # << >>
                => /\ app.shutdownCalls = 1
                   /\ app.runResult = app.shutdownResult
                   /\ app.signalled # << >>

C29_Witness ==
    /\ app.cfg # << >> /\ app.pc = "returned" /\ Alive(app)
    /\ app.shutdownCalls = 1 /\ app.signalled = <<"SIGTERM">>
    /\ app.runResult = <<Err(<<"s","e","r","v","e","r"," ","f","o","r","c","e","d"," ","t","o"," ","s","h","u","t","d","o","w","n",":"," ","c","o","n","t","e","x","t"," ","d","e","a","d","l","i","n","e"," ","e","x","c","e","e","d","e","d">>)>>
    /\ app.runResult = app.shutdownResult

====
